---- MODULE Spec2Model ----
(***************************************************************************)
(* Timeline computation engine of src/src/App.jsx: the elapsed/remaining   *)
(* conversion, the expansion of a repeating stream into occurrences and    *)
(* the sweep that finds the ranges where two one-shot intervals are active *)
(* together; the unique-duration toggle, the grid lines, and the           *)
(* application's document with the handlers that edit it and drag its      *)
(* bars, its import and export as plain text, and its load from and save   *)
(* to localStorage.                                                        *)
(*                                                                         *)
(* Times are integers counting thousandths of a second (1 = 0.001 s), so   *)
(* the source's 2 s is 2000, its 0.1 s is 100 and its 0.001 s is 1.        *)
(* Arithmetic on these values is exact.                                    *)
(***************************************************************************)
EXTENDS Integers, Sequences, FiniteSets, TLC

VARIABLES
    \* calculateExOverlaps: the document and the memoised result (line 848)
    tasks, totalDuration, overlaps, ovPc,
    \* generateNSBars: its arguments, its locals and the loop position
    nsConfig, totalTime, bars, index, nsPc,
    \* toRemaining / fromRemaining: the arguments and the two results
    remaining, total, elapsed, back, ttPc,
    \* calculateUniqueDuration under the toggles: the stored duration and
    \* flag, their values before the first toggle, the toggles made
    udDuration, udUnique2, udOrigin, udToggles,
    \* GanttBackground: its props and the memoised gridLines
    tickInterval, gridTotal, gridLines, gridPc,
    \* App: the drag context, the scheduled animation frame, the zoom level,
    \* the width of the scroll container, the handlers run so far
    dragState, pendingFrame, zoomIndex, viewportWidth, steps,
    \* App: the chart title, the isLoaded flag, the value localStorage holds
    \* under STORAGE_KEY, the state updates the load effect has queued, the
    \* position in the effects of the mount, the exported text and whether
    \* its modal is shown
    chartTitle, isLoaded, storage, queued, loadPc, outputText, showOutputModal

ovVars == <<tasks, totalDuration, overlaps, ovPc>>
nsVars == <<nsConfig, totalTime, bars, index, nsPc>>
ttVars == <<remaining, total, elapsed, back, ttPc>>
udVars == <<udDuration, udUnique2, udOrigin, udToggles>>
gridVars == <<tickInterval, gridTotal, gridLines, gridPc>>
appVars == <<dragState, pendingFrame, zoomIndex, viewportWidth, steps>>
ioVars == <<chartTitle, isLoaded, storage, queued, loadPc, outputText, showOutputModal>>
vars == <<tasks, totalDuration, overlaps, ovPc,
          nsConfig, totalTime, bars, index, nsPc,
          remaining, total, elapsed, back, ttPc,
          udDuration, udUnique2, udOrigin, udToggles,
          tickInterval, gridTotal, gridLines, gridPc,
          dragState, pendingFrame, zoomIndex, viewportWidth, steps,
          chartTitle, isLoaded, storage, queued, loadPc, outputText, showOutputModal>>

Max(a, b) == IF a >= b THEN a ELSE b
Min(a, b) == IF a <= b THEN a ELSE b

(***************************************************************************)
(* Program constants                                                       *)
(***************************************************************************)
MIN_ELAPSED_TIME == 2000
\* Math.max(gap, 0.1)
GapFloor == 100
\* Math.max(duration, 0.001)
DurationFloor == 1
maxBars == 1000
\* event.time > overlapStart + 0.001
OverlapEpsilon == 1
\* setTotalDuration(parsed.totalDuration || 210), TIME_OPTIONS[0]
DefaultTotalDuration == 210000
\* the title of useState(...) and of parsed.chartTitle || ... (lines 734, 801)
DefaultChartTitle == "Chart1"

(***************************************************************************)
(* toRemaining, fromRemaining                                              *)
(***************************************************************************)
\* mutant: the operands of the subtraction exchanged
toRemaining_Swapped(el, totalDur) == el - totalDur

toRemaining(el, totalDur) == totalDur - el

\* mutant: the elapsed time returned without the floor
fromRemaining_NoFloor(rem, totalDur) == totalDur - rem

fromRemaining(rem, totalDur) ==
    LET el == totalDur - rem
    IN  Max(MIN_ELAPSED_TIME, el)

(***************************************************************************)
(* calculateExOverlaps                                                     *)
(***************************************************************************)
\* block.castTime || 0 : a missing (or zero) castTime reads as 0
CastTimeOf(block) ==
    IF "castTime" \in DOMAIN block /\ block.castTime # 0
    THEN block.castTime
    ELSE 0

\* const effectStart = block.start + castTime
EffectStart(block) == block.start + CastTimeOf(block)

\* the two events one block pushes, none when its duration is not positive
BlockEvents(block) ==
    IF block.duration > 0
    THEN << [time |-> EffectStart(block), type |-> 1],
            [time |-> EffectStart(block) + block.duration, type |-> -1] >>
    ELSE << >>

RECURSIVE ExEvents(_)
\* task.ex.forEach(block => ...)
ExEvents(ex) ==
    IF ex = << >> THEN << >>
    ELSE BlockEvents(Head(ex)) \o ExEvents(Tail(ex))

\* mutant: the checkOverlap test left out
TaskEvents_AnyStream(task) == ExEvents(task.ex)

\* if (!task.checkOverlap) return;
TaskEvents(task) ==
    IF ~task.checkOverlap THEN << >> ELSE ExEvents(task.ex)

RECURSIVE CollectEvents(_)
\* tasks.forEach(task => ...)
CollectEvents(ts) ==
    IF ts = << >> THEN << >>
    ELSE TaskEvents(Head(ts)) \o CollectEvents(Tail(ts))

\* mutant: events are ordered by time alone, ties keeping their insertion order
CompareEvents_TimeOnly(a, b) == a.time - b.time

\* the comparator handed to events.sort
CompareEvents(a, b) ==
    IF a.time # b.time THEN a.time - b.time ELSE a.type - b.type

RECURSIVE InsertEvent(_, _)
\* e placed after every element that does not compare greater (a stable sort)
InsertEvent(e, sorted) ==
    IF sorted = << >> THEN << e >>
    ELSE IF CompareEvents(e, Head(sorted)) < 0
         THEN << e >> \o sorted
         ELSE << Head(sorted) >> \o InsertEvent(e, Tail(sorted))

RECURSIVE SortEvents(_)
\* events.sort(comparator)
SortEvents(events) ==
    IF events = << >> THEN << >>
    ELSE InsertEvent(events[Len(events)], SortEvents(SubSeq(events, 1, Len(events) - 1)))

\* the sweep's locals before the first event; overlapStart = << >> is null
SweepInit == [count |-> 0, overlapStart |-> << >>, overlaps |-> << >>]

\* mutant: overlapStart is not reset to null when a range closes, and is
\* only set while it is null
SweepStep_StaleStart(st, event) ==
    LET prevCount == st.count
        count     == st.count + event.type
        opened    == IF prevCount < 2 /\ count >= 2 /\ st.overlapStart = << >>
                     THEN << event.time >>
                     ELSE st.overlapStart
        closes    == prevCount >= 2 /\ count < 2 /\ opened # << >>
    IN  [count        |-> count,
         overlapStart |-> opened,
         overlaps     |-> IF closes /\ event.time > opened[1] + OverlapEpsilon
                          THEN Append(st.overlaps, [start |-> opened[1], end |-> event.time])
                          ELSE st.overlaps]

\* mutant: a range opens and closes at an active count of 1 instead of 2
SweepStep_Threshold1(st, event) ==
    LET prevCount == st.count
        count     == st.count + event.type
        opened    == IF prevCount < 1 /\ count >= 1
                     THEN << event.time >>
                     ELSE st.overlapStart
        closes    == prevCount >= 1 /\ count < 1 /\ opened # << >>
    IN  [count        |-> count,
         overlapStart |-> IF closes THEN << >> ELSE opened,
         overlaps     |-> IF closes /\ event.time > opened[1] + OverlapEpsilon
                          THEN Append(st.overlaps, [start |-> opened[1], end |-> event.time])
                          ELSE st.overlaps]

\* the body of events.forEach(event => ...)
SweepStep(st, event) ==
    LET prevCount == st.count
        count     == st.count + event.type
        opened    == IF prevCount < 2 /\ count >= 2
                     THEN << event.time >>
                     ELSE st.overlapStart
        closes    == prevCount >= 2 /\ count < 2 /\ opened # << >>
    IN  [count        |-> count,
         overlapStart |-> IF closes THEN << >> ELSE opened,
         overlaps     |-> IF closes /\ event.time > opened[1] + OverlapEpsilon
                          THEN Append(st.overlaps, [start |-> opened[1], end |-> event.time])
                          ELSE st.overlaps]

RECURSIVE Sweep(_, _)
Sweep(st, events) ==
    IF events = << >> THEN st
    ELSE Sweep(SweepStep(st, Head(events)), Tail(events))

calculateExOverlaps(ts, totalDur) ==
    Sweep(SweepInit, SortEvents(CollectEvents(ts))).overlaps

(***************************************************************************)
(* generateNSBars                                                          *)
(***************************************************************************)
\* const { start = 0, castTime = 0, gap, duration } = nsConfig
NsStart(cfg) == IF "start" \in DOMAIN cfg THEN cfg.start ELSE 0
NsCastTime(cfg) == IF "castTime" \in DOMAIN cfg THEN cfg.castTime ELSE 0

actualBaseStart(cfg) == Max(MIN_ELAPSED_TIME, NsStart(cfg))
\* mutant: the stored gap used without the floor
safeGap_NoFloor(cfg) == cfg.gap

safeGap(cfg) == Max(cfg.gap, GapFloor)
safeDuration(cfg) == Max(cfg.duration, DurationFloor)

\* const currentStart = actualBaseStart + (index * safeGap)
currentStart(cfg, i) == actualBaseStart(cfg) + (i * safeGap(cfg))

\* mutant: the loop stops only when the start is past the bound
BreakOnStart_Strict(cfg, tt, i) ==
    currentStart(cfg, i) > tt + safeDuration(cfg) + NsCastTime(cfg)

\* if (currentStart >= totalTime + safeDuration + castTime) break;
BreakOnStart(cfg, tt, i) ==
    currentStart(cfg, i) >= tt + safeDuration(cfg) + NsCastTime(cfg)

\* mutant: the cap test left out
BreakOnCap_Never(i) == FALSE

\* if (index >= maxBars) break;
BreakOnCap(i) == i >= maxBars

\* the object pushed for occurrence i
NsBar(cfg, i) ==
    [index    |-> i,
     start    |-> currentStart(cfg, i),
     castTime |-> NsCastTime(cfg),
     duration |-> safeDuration(cfg)]

\* one pass through the body of while (true): st holds bars, index and
\* whether a break was taken
NsLoopBody(cfg, tt, st) ==
    IF BreakOnStart(cfg, tt, st.index)
    THEN [st EXCEPT !.done = TRUE]
    ELSE [bars  |-> Append(st.bars, NsBar(cfg, st.index)),
          index |-> st.index + 1,
          done  |-> BreakOnCap(st.index + 1)]

(***************************************************************************)
(* Inputs                                                                  *)
(***************************************************************************)
\* the ns record of the built-in default streams
DefaultNs ==
    [start |-> MIN_ELAPSED_TIME, castTime |-> 0, gap |-> 30000,
     duration |-> 10000, isUnique2 |-> FALSE]

\* the most one-shot blocks a document holds
MaxBlocks == 3

\* one-shot blocks: start 0 and no castTime field, or start 1 and castTime 1;
\* durations negative, zero and positive
BlockDurations == {-1, 0, 1, 2, 5}

Blocks ==
    { [start |-> 0, duration |-> d] : d \in BlockDurations }
    \cup
    { [start |-> 1, castTime |-> 1, duration |-> d] : d \in BlockDurations }

ExLists(n) == [1..n -> Blocks]

\* a document of two streams with the given flags and one-shot blocks
Document(f1, e1, f2, e2) ==
    << [checkOverlap |-> f1, ex |-> e1, ns |-> DefaultNs],
       [checkOverlap |-> f2, ex |-> e2, ns |-> DefaultNs] >>

(***************************************************************************)
(* Specification of calculateExOverlaps: a document is drawn, the memo     *)
(* of line 848 computes its overlaps                                       *)
(***************************************************************************)
NsIdle ==
    /\ nsConfig = DefaultNs
    /\ totalTime = DefaultTotalDuration
    /\ bars = << >>
    /\ index = 0
    /\ nsPc = "idle"

TtIdle ==
    /\ remaining = 0
    /\ total = DefaultTotalDuration
    /\ elapsed = 0
    /\ back = 0
    /\ ttPc = "idle"

OvIdle ==
    /\ tasks = << >>
    /\ totalDuration = DefaultTotalDuration
    /\ overlaps = << >>
    /\ ovPc = "idle"

UdIdle ==
    /\ udDuration = 0
    /\ udUnique2 = FALSE
    /\ udOrigin = [duration |-> 0, isUnique2 |-> FALSE]
    /\ udToggles = 0

GridIdle ==
    /\ tickInterval = 0
    /\ gridTotal = DefaultTotalDuration
    /\ gridLines = << >>
    /\ gridPc = "idle"

AppIdle ==
    /\ dragState = << >>
    /\ pendingFrame = << >>
    /\ zoomIndex = 0
    /\ viewportWidth = 0
    /\ steps = 0

IoIdle ==
    /\ chartTitle = DefaultChartTitle
    /\ isLoaded = FALSE
    /\ storage = << >>
    /\ queued = << >>
    /\ loadPc = "idle"
    /\ outputText = << >>
    /\ showOutputModal = FALSE

\* two streams holding at most MaxBlocks one-shot blocks between them
InitOverlap ==
    /\ \E n1 \in 0..MaxBlocks : \E n2 \in 0..(MaxBlocks - n1) :
         \E e1 \in ExLists(n1), e2 \in ExLists(n2), f1 \in BOOLEAN, f2 \in BOOLEAN :
            tasks = Document(f1, e1, f2, e2)
    /\ totalDuration = DefaultTotalDuration
    /\ overlaps = << >>
    /\ ovPc = "input"
    /\ NsIdle
    /\ TtIdle
    /\ UdIdle
    /\ GridIdle
    /\ AppIdle
    /\ IoIdle

\* const overlaps = useMemo(() => calculateExOverlaps(tasks, totalDuration), ...)
ComputeOverlaps ==
    /\ ovPc = "input"
    /\ overlaps' = calculateExOverlaps(tasks, totalDuration)
    /\ ovPc' = "done"
    /\ UNCHANGED <<tasks, totalDuration>>
    /\ UNCHANGED nsVars
    /\ UNCHANGED ttVars
    /\ UNCHANGED udVars
    /\ UNCHANGED gridVars
    /\ UNCHANGED appVars
    /\ UNCHANGED ioVars

NextOverlap == ComputeOverlaps

SpecOverlap == InitOverlap /\ [][NextOverlap]_vars

(***************************************************************************)
(* Specification of generateNSBars: a configuration and a total time are   *)
(* drawn, each step is one pass through the while loop                     *)
(***************************************************************************)
\* configurations around the floors, run against short total times
NsSmallConfigs ==
    { [start |-> s, castTime |-> c, gap |-> g, duration |-> d, isUnique2 |-> FALSE] :
        s \in {0, 1999, 2000, 2001, 2500}, c \in {0, 250},
        g \in {-1000, 0, 99, 100, 101, 700}, d \in {-5, 0, 1, 2, 300} }
    \cup
    { [gap |-> g, duration |-> d] : g \in {0, 100, 700}, d \in {0, 300} }

NsSmallTotals == {0, 2000, 3000, 4000}

\* configurations run against the selectable total times and a very long one
NsLongConfigs ==
    { DefaultNs,
      [DefaultNs EXCEPT !.gap = 0],
      [DefaultNs EXCEPT !.gap = GapFloor, !.duration = 0],
      [DefaultNs EXCEPT !.castTime = 1000000000] }

NsLongTotals == {210000, 240000, 270000, 1000000000}

InitNS ==
    /\ \/ nsConfig \in NsSmallConfigs /\ totalTime \in NsSmallTotals
       \/ nsConfig \in NsLongConfigs /\ totalTime \in NsLongTotals
    /\ bars = << >>
    /\ index = 0
    /\ nsPc = "loop"
    /\ OvIdle
    /\ TtIdle
    /\ UdIdle
    /\ GridIdle
    /\ AppIdle
    /\ IoIdle

\* one iteration of while (true) { ... }
NsIterate ==
    /\ nsPc = "loop"
    /\ LET st == NsLoopBody(nsConfig, totalTime,
                            [bars |-> bars, index |-> index, done |-> FALSE])
       IN  /\ bars' = st.bars
           /\ index' = st.index
           /\ nsPc' = IF st.done THEN "done" ELSE "loop"
    /\ UNCHANGED <<nsConfig, totalTime>>
    /\ UNCHANGED ovVars
    /\ UNCHANGED ttVars
    /\ UNCHANGED udVars
    /\ UNCHANGED gridVars
    /\ UNCHANGED appVars
    /\ UNCHANGED ioVars

NextNS == NsIterate

SpecNS == InitNS /\ [][NextNS]_vars

\* the loop is not suspended: a started call runs on
FairSpecNS == SpecNS /\ WF_vars(NsIterate)

(***************************************************************************)
(* Specification of the elapsed/remaining conversion: a remaining time is  *)
(* converted to an elapsed start and back                                  *)
(***************************************************************************)
\* how far around each threshold the remaining times are drawn
MaxOffset == 3

TotalInputs == {1000, 3000, 210000, 240000, 270000}

RemainingInputs(tot) ==
    { base + d : base \in {0, MIN_ELAPSED_TIME, tot - MIN_ELAPSED_TIME, tot},
                 d \in (-MaxOffset)..MaxOffset }

InitTime ==
    /\ total \in TotalInputs
    /\ remaining \in RemainingInputs(total)
    /\ elapsed = 0
    /\ back = 0
    /\ ttPc = "input"
    /\ OvIdle
    /\ NsIdle
    /\ UdIdle
    /\ GridIdle
    /\ AppIdle
    /\ IoIdle

\* start: fromRemaining(val, totalDuration)
CallFromRemaining ==
    /\ ttPc = "input"
    /\ elapsed' = fromRemaining(remaining, total)
    /\ ttPc' = "elapsed"
    /\ UNCHANGED <<remaining, total, back>>
    /\ UNCHANGED ovVars
    /\ UNCHANGED nsVars
    /\ UNCHANGED udVars
    /\ UNCHANGED gridVars
    /\ UNCHANGED appVars
    /\ UNCHANGED ioVars

\* value={toRemaining(block.start, totalDuration)}
CallToRemaining ==
    /\ ttPc = "elapsed"
    /\ back' = toRemaining(elapsed, total)
    /\ ttPc' = "done"
    /\ UNCHANGED <<remaining, total, elapsed>>
    /\ UNCHANGED ovVars
    /\ UNCHANGED nsVars
    /\ UNCHANGED udVars
    /\ UNCHANGED gridVars
    /\ UNCHANGED appVars
    /\ UNCHANGED ioVars

NextTime == CallFromRemaining \/ CallToRemaining

SpecTime == InitTime /\ [][NextTime]_vars

(***************************************************************************)
(* Claims about the elapsed/remaining conversion (SpecTime)                *)
(***************************************************************************)
\* C9 as stated: converting a remaining time r to an elapsed start and back
\* gives max(r, T - (T - MIN_ELAPSED)), for every r and T.
C9_AsStated ==
    ttPc = "done" =>
        back = Max(remaining, total - (total - MIN_ELAPSED_TIME))

\* C9 amended: converting a remaining time r to an elapsed start and back
\* gives min(r, T - MIN_ELAPSED): r itself up to T - MIN_ELAPSED, and
\* T - MIN_ELAPSED for every larger r.
C9_RoundTripIsMin ==
    ttPc = "done" =>
        back = Min(remaining, total - MIN_ELAPSED_TIME)

\* a round trip on which the floor engaged and the remaining time came back
\* smaller than it went in
C9_Witness ==
    /\ ttPc = "done"
    /\ remaining > total - MIN_ELAPSED_TIME
    /\ elapsed = MIN_ELAPSED_TIME
    /\ back = total - MIN_ELAPSED_TIME
    /\ back < remaining

\* C10: when r <= T - MIN_ELAPSED the round trip returns r; when
\* r > T - MIN_ELAPSED fromRemaining returns exactly MIN_ELAPSED.
C10_RoundTripBelowFloor ==
    /\ ttPc = "done" /\ remaining <= total - MIN_ELAPSED_TIME => back = remaining
    /\ ttPc \in {"elapsed", "done"} /\ remaining > total - MIN_ELAPSED_TIME
           => elapsed = MIN_ELAPSED_TIME

\* a round trip of a non-zero remaining time that the floor left alone
C10_Witness ==
    /\ ttPc = "done"
    /\ remaining # 0
    /\ remaining < total - MIN_ELAPSED_TIME
    /\ elapsed > MIN_ELAPSED_TIME
    /\ back = remaining

(***************************************************************************)
(* Claims about calculateExOverlaps (SpecOverlap)                          *)
(***************************************************************************)
\* the cast delay of an interval, 0 when the document stores none
CastDelay(block) == IF "castTime" \in DOMAIN block THEN block.castTime ELSE 0

\* the one-shot intervals, as <<stream, position>>, that are overlap-eligible,
\* of positive duration and active at time t
ActiveAt(ts, t) ==
    { p \in { q \in (1..Len(ts)) \X (1..MaxBlocks + 1) : q[2] <= Len(ts[q[1]].ex) } :
        LET block == ts[p[1]].ex[p[2]]
        IN  /\ ts[p[1]].checkOverlap
            /\ block.duration > 0
            /\ block.start + CastDelay(block) <= t
            /\ t < block.start + CastDelay(block) + block.duration }

\* two or more intervals are active at t
DoubleAt(ts, t) == Cardinality(ActiveAt(ts, t)) >= 2

\* every interval boundary of the drawn documents lies inside this grid; the
\* set of active intervals is constant on each [k, k + 1)
TimeGrid == (-2)..10

\* the width of the maximal span of double activity that holds t
SpanWidth(ts, t) ==
    LET lo == CHOOSE j \in TimeGrid :
                 /\ j <= t
                 /\ \A m \in j..t : DoubleAt(ts, m)
                 /\ ~DoubleAt(ts, j - 1)
        hi == CHOOSE j \in TimeGrid :
                 /\ j >= t
                 /\ \A m \in t..j : DoubleAt(ts, m)
                 /\ ~DoubleAt(ts, j + 1)
    IN  hi + 1 - lo

\* t lies in one of the ranges
InRanges(ranges, t) ==
    \E i \in 1..Len(ranges) : ranges[i].start <= t /\ t < ranges[i].end

\* C1 as stated: a time lies in a returned range exactly when two or more
\* eligible positive-duration intervals are active at it, except inside
\* spans of double activity no wider than 0.001 s.
C1_AsStated ==
    ovPc = "done" =>
        \A t \in TimeGrid :
            InRanges(overlaps, t) <=>
                (DoubleAt(tasks, t) /\ SpanWidth(tasks, t) > OverlapEpsilon)

\* C2: the returned ranges are sorted by start, pairwise disjoint and each
\* of positive width.
C2_SortedDisjoint ==
    ovPc = "done" =>
        \A i \in 1..Len(overlaps) :
            /\ overlaps[i].end > overlaps[i].start
            /\ i < Len(overlaps) =>
                  /\ overlaps[i].start < overlaps[i + 1].start
                  /\ overlaps[i].end <= overlaps[i + 1].start

\* a result of two ranges
C2_Witness == ovPc = "done" /\ Len(overlaps) >= 2

\* C4 as stated: each returned range is a maximal span of double activity:
\* fewer than two intervals are active just before its start and at its end,
\* so no two ranges share an endpoint.
C4_AsStated ==
    ovPc = "done" =>
        \A i \in 1..Len(overlaps) :
            /\ ~DoubleAt(tasks, overlaps[i].start - 1)
            /\ ~DoubleAt(tasks, overlaps[i].end)
            /\ \A j \in 1..Len(overlaps) : overlaps[i].end # overlaps[j].start

\* the eligible positive-duration intervals of a document, as <<stream, position>>
Eligible(ts) ==
    { p \in { q \in (1..Len(ts)) \X (1..MaxBlocks + 1) : q[2] <= Len(ts[q[1]].ex) } :
        ts[p[1]].checkOverlap /\ ts[p[1]].ex[p[2]].duration > 0 }

WindowStart(ts, p) == ts[p[1]].ex[p[2]].start + CastDelay(ts[p[1]].ex[p[2]])
WindowEnd(ts, p) == WindowStart(ts, p) + ts[p[1]].ex[p[2]].duration

\* the instants at which one interval's window ends, another's begins and no
\* interval besides the beginning one is active
LoneAbutments(ts) ==
    { t \in TimeGrid :
        \E x \in Eligible(ts), y \in Eligible(ts) :
            /\ x # y
            /\ WindowEnd(ts, x) = t
            /\ WindowStart(ts, y) = t
            /\ ActiveAt(ts, t) = {y} }

\* C3: where two eligible intervals exactly abut and no other interval is
\* active at that instant, no returned range holds the instant or starts at
\* it, however many intervals the document has elsewhere.
C3_AbuttingNoOverlap ==
    ovPc = "done" =>
        \A t \in LoneAbutments(tasks) :
            /\ ~InRanges(overlaps, t)
            /\ \A i \in 1..Len(overlaps) : overlaps[i].start # t

\* an abutment next to a returned range: a third interval overlaps the
\* ending one up to the instant of the abutment
C3_Witness ==
    /\ ovPc = "done"
    /\ \E t \in LoneAbutments(tasks) :
          \E i \in 1..Len(overlaps) : overlaps[i].end = t

\* the document with the streams whose flag is off removed
RECURSIVE FlaggedOnly(_)
FlaggedOnly(ts) ==
    IF ts = << >> THEN << >>
    ELSE IF Head(ts).checkOverlap
         THEN << Head(ts) >> \o FlaggedOnly(Tail(ts))
         ELSE FlaggedOnly(Tail(ts))

\* the document with the same repeating-stream record in every stream
WithNs(ts, ns) == [i \in 1..Len(ts) |-> [ts[i] EXCEPT !.ns = ns]]

\* the document with the one-shot intervals of duration <= 0 removed
RECURSIVE PositiveOnly(_)
PositiveOnly(ex) ==
    IF ex = << >> THEN << >>
    ELSE IF Head(ex).duration > 0
         THEN << Head(ex) >> \o PositiveOnly(Tail(ex))
         ELSE PositiveOnly(Tail(ex))

WithoutNonPositive(ts) ==
    [i \in 1..Len(ts) |-> [ts[i] EXCEPT !.ex = PositiveOnly(ts[i].ex)]]

\* repeating-stream records that differ from the stored one in every field
OtherNs ==
    { [start |-> 0, castTime |-> 1, gap |-> 1, duration |-> 5, isUnique2 |-> TRUE],
      [start |-> 1, castTime |-> 0, gap |-> 0, duration |-> 2, isUnique2 |-> FALSE] }

\* C5: the result is the result on the document without its flag-off
\* streams, does not depend on any repeating-stream field, and is the result
\* on the document without its one-shot intervals of duration <= 0.
C5_OnlyFlaggedOneShots ==
    ovPc = "done" =>
        /\ overlaps = calculateExOverlaps(FlaggedOnly(tasks), totalDuration)
        /\ \A ns \in OtherNs :
              overlaps = calculateExOverlaps(WithNs(tasks, ns), totalDuration)
        /\ overlaps = calculateExOverlaps(WithoutNonPositive(tasks), totalDuration)

\* a flag-off stream whose intervals would add a range if they took part,
\* beside a flagged stream that holds an interval of duration <= 0
C5_Witness ==
    /\ ovPc = "done"
    /\ \E i \in 1..Len(tasks) :
          /\ ~tasks[i].checkOverlap
          /\ overlaps # calculateExOverlaps(
                            [j \in 1..Len(tasks) |-> [tasks[j] EXCEPT !.checkOverlap = TRUE]],
                            totalDuration)
    /\ \E i \in 1..Len(tasks) :
          /\ tasks[i].checkOverlap
          /\ \E j \in 1..Len(tasks[i].ex) : tasks[i].ex[j].duration <= 0

(***************************************************************************)
(* Claims about generateNSBars (SpecNS, FairSpecNS)                        *)
(***************************************************************************)
\* the fields of the repeating-event spec, 0 for a start or cast delay the
\* configuration does not hold
SpecStart(cfg) == IF "start" \in DOMAIN cfg THEN cfg.start ELSE 0
SpecCastDelay(cfg) == IF "castTime" \in DOMAIN cfg THEN cfg.castTime ELSE 0

\* occurrence i of the progression: max(MIN_ELAPSED, start) + i * max(gap, 0.1)
OccurrenceStart(cfg, i) ==
    Max(MIN_ELAPSED_TIME, SpecStart(cfg)) + i * Max(cfg.gap, 100)

\* the duration of every occurrence: max(duration, 0.001)
OccurrenceDuration(cfg) == Max(cfg.duration, 1)

Occurrence(cfg, i) ==
    [index    |-> i,
     start    |-> OccurrenceStart(cfg, i),
     castTime |-> SpecCastDelay(cfg),
     duration |-> OccurrenceDuration(cfg)]

\* totalDuration + duration + castDelay
StopBound(cfg, tt) == tt + OccurrenceDuration(cfg) + SpecCastDelay(cfg)

\* C6: the occurrences carry the indices 0..n-1 in order, occurrence i
\* starts at max(MIN_ELAPSED, start) + i * max(gap, 0.1) with duration
\* max(duration, 0.001) and the spec's cast delay; starts increase strictly,
\* every start is >= MIN_ELAPSED and every duration is > 0.
C6_OccurrenceFormula ==
    /\ nsPc \in {"loop", "done"} => index = Len(bars)
    /\ \A i \in 1..Len(bars) :
          /\ bars[i] = Occurrence(nsConfig, i - 1)
          /\ bars[i].start >= MIN_ELAPSED_TIME
          /\ bars[i].duration > 0
          /\ i > 1 => bars[i - 1].start < bars[i].start

\* a finished expansion of several occurrences from a stored start below the
\* floor, a gap <= 0 and a duration <= 0
C6_Witness ==
    /\ nsPc = "done"
    /\ Len(bars) >= 3
    /\ SpecStart(nsConfig) < MIN_ELAPSED_TIME
    /\ nsConfig.gap <= 0
    /\ nsConfig.duration <= 0

\* the starts of the example: start 2, gap 30, duration 10, castDelay 0
\* against a total of 210
ExampleStarts == <<2000, 32000, 62000, 92000, 122000, 152000, 182000, 212000>>

\* C7: below the cap, occurrence i is kept exactly when its start is
\* strictly less than totalDuration + duration + castDelay; the example
\* yields the 8 starts 2, 32, ..., 212.
C7_KeptIffBelowBound ==
    nsPc = "done" =>
        /\ \A i \in 0..(maxBars - 1) :
              i < Len(bars) <=> OccurrenceStart(nsConfig, i) < StopBound(nsConfig, totalTime)
        /\ nsConfig = DefaultNs /\ totalTime = DefaultTotalDuration =>
              [i \in 1..Len(bars) |-> bars[i].start] = ExampleStarts

\* a finished expansion whose first excluded occurrence starts exactly at
\* the bound
C7_Witness ==
    /\ nsPc = "done"
    /\ Len(bars) >= 1
    /\ Len(bars) < maxBars
    /\ OccurrenceStart(nsConfig, Len(bars)) = StopBound(nsConfig, totalTime)

\* C8: every call ends, the result never holds more than 1000 occurrences,
\* and a result cut by the cap is the first 1000 occurrences of the
\* progression.
C8_TerminatesWithinCap ==
    /\ <>(nsPc = "done")
    /\ [](Len(bars) <= maxBars)
    /\ [](nsPc = "done" /\ Len(bars) = maxBars =>
             bars = [i \in 1..maxBars |-> Occurrence(nsConfig, i - 1)])

\* a call ended by the cap although the next occurrence lay below the bound,
\* for a stored gap of 0
C8_Witness ==
    /\ nsPc = "done"
    /\ Len(bars) = maxBars
    /\ nsConfig.gap <= 0
    /\ OccurrenceStart(nsConfig, maxBars) < StopBound(nsConfig, totalTime)

(***************************************************************************)
(* calculateUniqueDuration.  A duration here is counted in units finer     *)
(* than the thousandth of a second, SubTicks of them to the thousandth,    *)
(* so that durations between two thousandths are inputs too.               *)
(***************************************************************************)
\* duration units in 0.001 s
SubTicks == 10

\* duration units in 0.01 s, the step of Math.round(x * 100) / 100
UnitsPerHundredth == 10 * SubTicks

\* UNIQUE_FACTOR = 1.19, in hundredths
UNIQUE_FACTOR == 119

\* Math.round(n / q) for q > 0: the nearest integer, a half rounded up
MathRound(n, q) == (2 * n + q) \div (2 * q)

\* Math.floor(n / q) for q > 0
MathFloor(n, q) == n \div q

\* mutant: the duration multiplied whatever the flag is
calculateUniqueDuration_AlwaysMultiply(currentDuration, isUnique) ==
    MathRound(currentDuration * UNIQUE_FACTOR, 100 * UnitsPerHundredth)
        * UnitsPerHundredth

\* mutant: the hundredths truncated instead of rounded
calculateUniqueDuration_Truncate(currentDuration, isUnique) ==
    IF isUnique
    THEN MathFloor(currentDuration * UNIQUE_FACTOR, 100 * UnitsPerHundredth)
             * UnitsPerHundredth
    ELSE MathFloor(currentDuration * 100, UNIQUE_FACTOR * UnitsPerHundredth)
             * UnitsPerHundredth

\* mutant: the hundredths rounded up instead of to the nearest
calculateUniqueDuration_RoundUp(currentDuration, isUnique) ==
    LET num == IF isUnique THEN currentDuration * UNIQUE_FACTOR
                           ELSE currentDuration * 100
        den == IF isUnique THEN 100 ELSE UNIQUE_FACTOR
    IN  MathFloor(num + den * UnitsPerHundredth - 1, den * UnitsPerHundredth)
            * UnitsPerHundredth

\* newDuration is currentDuration * 1.19 or currentDuration / 1.19, kept as
\* the fraction num / den; the result is Math.round(newDuration * 100) / 100
calculateUniqueDuration(currentDuration, isUnique) ==
    LET num == IF isUnique THEN currentDuration * UNIQUE_FACTOR
                           ELSE currentDuration * 100
        den == IF isUnique THEN 100 ELSE UNIQUE_FACTOR
    IN  MathRound(num, den * UnitsPerHundredth) * UnitsPerHundredth

(***************************************************************************)
(* Specification of the unique-duration toggle: a stored duration and its  *)
(* flag are drawn, each step is one toggle                                 *)
(***************************************************************************)
\* the longest duration drawn from the fine grid, in duration units
MaxFineDuration == 9000

\* the toggles made in one behaviour
MaxToggles == 4

\* every duration of the fine grid up to MaxFineDuration, and the durations
\* of the built-in default streams (10, 13, 28, 30 and 45 s)
UniqueDurations ==
    (1..MaxFineDuration)
    \cup { sec * 1000 * SubTicks : sec \in {10, 13, 28, 30, 45} }

InitUnique ==
    /\ udDuration \in UniqueDurations
    /\ udUnique2 \in BOOLEAN
    /\ udOrigin = [duration |-> udDuration, isUnique2 |-> udUnique2]
    /\ udToggles = 0
    /\ OvIdle
    /\ NsIdle
    /\ TtIdle
    /\ GridIdle
    /\ AppIdle
    /\ IoIdle

\* toggleExUnique2, toggleNsUnique2: the flag is flipped and the duration
\* rescaled in the direction of the new flag
ToggleUnique2 ==
    /\ udToggles < MaxToggles
    /\ LET newIsUnique2 == ~udUnique2
           newDuration == calculateUniqueDuration(udDuration, newIsUnique2)
       IN  /\ udUnique2' = newIsUnique2
           /\ udDuration' = newDuration
    /\ udToggles' = udToggles + 1
    /\ UNCHANGED udOrigin
    /\ UNCHANGED ovVars
    /\ UNCHANGED nsVars
    /\ UNCHANGED ttVars
    /\ UNCHANGED gridVars
    /\ UNCHANGED appVars
    /\ UNCHANGED ioVars

NextUnique == ToggleUnique2

SpecUnique == InitUnique /\ [][NextUnique]_vars

(***************************************************************************)
(* Claims about the unique-duration toggle (SpecUnique)                    *)
(***************************************************************************)
\* how far the stored duration is from the one before the first toggle
UniqueDrift ==
    IF udDuration >= udOrigin.duration
    THEN udDuration - udOrigin.duration
    ELSE udOrigin.duration - udDuration

\* the flag was off, it has been enabled and then disabled
EnabledThenDisabled == udToggles = 2 /\ ~udOrigin.isUnique2

\* the flag was on, it has been disabled and then enabled again
DisabledThenEnabled == udToggles = 2 /\ udOrigin.isUnique2

\* C11: for every duration d > 0, enabling and then disabling the unique
\* modifier gives a duration at most 0.01 s away from d.
C11_EnableDisableWithinTolerance ==
    EnabledThenDisabled => UniqueDrift <= UnitsPerHundredth

\* an enable/disable pair that does not return d: 0.003 s becomes 0 and stays 0
C11_Witness ==
    /\ EnabledThenDisabled
    /\ udOrigin.duration = 3 * SubTicks
    /\ udDuration = 0

\* C12 as stated: for every duration d > 0, disabling and then enabling the
\* unique modifier gives a duration at most 0.01 s away from d.
C12_AsStated ==
    DisabledThenEnabled => UniqueDrift <= UnitsPerHundredth

\* C12, amended: after disabling and then enabling, the duration is at most
\* 0.005 * (1 + 1.19) = 0.01095 s away from d, and at most 0.01 s away when
\* d is a whole number of thousandths of a second.
C12_DisableEnableDrift ==
    DisabledThenEnabled =>
        /\ 2 * 100 * UniqueDrift <= (100 + UNIQUE_FACTOR) * UnitsPerHundredth
        /\ udOrigin.duration % SubTicks = 0 => UniqueDrift <= UnitsPerHundredth

\* a disable/enable pair that ends 0.01 s away from a whole number of
\* thousandths: 0.850 s becomes 0.71 s and then 0.84 s
C12_Witness ==
    /\ DisabledThenEnabled
    /\ udOrigin.duration = 850 * SubTicks
    /\ udDuration = 84 * UnitsPerHundredth

(***************************************************************************)
(* GanttBackground: the grid lines.  A left position is the percentage     *)
(* (elapsed / totalDuration) * 100, kept as the fraction num / den.        *)
(***************************************************************************)
\* ZOOM_LEVELS: the width scale and the tick interval of each zoom level
ZOOM_LEVELS ==
    << [scale |-> 1,  interval |-> 10000],
       [scale |-> 2,  interval |-> 5000],
       [scale |-> 5,  interval |-> 1000],
       [scale |-> 10, interval |-> 500],
       [scale |-> 20, interval |-> 100] >>

\* TIME_OPTIONS: the values of the total-duration buttons
TIME_OPTIONS == <<210000, 240000, 270000>>

\* mutant: Math.floor(totalDuration / tickInterval) lines, without the + 1
gridLinesOf_NoPlusOne(totalDur, tick) ==
    [i \in 1..MathFloor(totalDur, tick) |->
        [key |-> i - 1, left |-> [num |-> (i - 1) * tick * 100, den |-> totalDur]]]

\* Array.from({ length: Math.floor(totalDuration / tickInterval) + 1 }).map(...)
gridLinesOf(totalDur, tick) ==
    [i \in 1..(MathFloor(totalDur, tick) + 1) |->
        LET el == (i - 1) * tick
            leftPos == [num |-> el * 100, den |-> totalDur]
        IN  [key |-> i - 1, left |-> leftPos]]

(***************************************************************************)
(* Specification of the grid: a total duration and a tick interval are     *)
(* drawn, the memo computes the lines                                      *)
(***************************************************************************)
\* the short total durations drawn, in steps of 0.05 s
MaxGridSteps == 40

GridTotals ==
    { TIME_OPTIONS[i] : i \in DOMAIN TIME_OPTIONS }
    \cup { 95000 }
    \cup { n * 50 : n \in 1..MaxGridSteps }

GridIntervals == { ZOOM_LEVELS[i].interval : i \in DOMAIN ZOOM_LEVELS }

InitGrid ==
    /\ gridTotal \in GridTotals
    /\ tickInterval \in GridIntervals
    /\ gridLines = << >>
    /\ gridPc = "input"
    /\ OvIdle
    /\ NsIdle
    /\ TtIdle
    /\ UdIdle
    /\ AppIdle
    /\ IoIdle

\* const gridLines = useMemo(() => ..., [totalDuration, tickInterval])
ComputeGridLines ==
    /\ gridPc = "input"
    /\ gridLines' = gridLinesOf(gridTotal, tickInterval)
    /\ gridPc' = "done"
    /\ UNCHANGED <<tickInterval, gridTotal>>
    /\ UNCHANGED ovVars
    /\ UNCHANGED nsVars
    /\ UNCHANGED ttVars
    /\ UNCHANGED udVars
    /\ UNCHANGED appVars
    /\ UNCHANGED ioVars

NextGrid == ComputeGridLines

SpecGrid == InitGrid /\ [][NextGrid]_vars

(***************************************************************************)
(* Claims about the grid (SpecGrid)                                        *)
(***************************************************************************)
\* the left percentage leftPos is 100 * el / gridTotal, the fraction
\* el / gridTotal of the width
LeftIsFractionOf(leftPos, el) ==
    /\ leftPos.den = gridTotal
    /\ leftPos.num = el * 100

\* leftPos a is strictly left of leftPos b, both over the same denominator
LeftBefore(a, b) == a.den = b.den /\ a.num < b.num

\* C20: for a tick interval k > 0 and a total duration T the grid has exactly
\* floor(T / k) + 1 lines, the i-th (from 0) at the fraction i * k / T of the
\* width, in ascending order, the first at 0 and the last at the largest
\* multiple of k that is <= T; k = 10 s and T = 95 s give the ten lines at
\* 0, 10, ..., 90 s.
C20_GridLines ==
    gridPc = "done" =>
        LET n == Len(gridLines)
        IN  /\ n = (gridTotal \div tickInterval) + 1
            /\ \A i \in 1..n :
                 /\ gridLines[i].key = i - 1
                 /\ LeftIsFractionOf(gridLines[i].left, (i - 1) * tickInterval)
            /\ \A i \in 1..(n - 1) :
                 LeftBefore(gridLines[i].left, gridLines[i + 1].left)
            /\ LeftIsFractionOf(gridLines[1].left, 0)
            /\ (n - 1) * tickInterval <= gridTotal
            /\ n * tickInterval > gridTotal
            /\ (gridTotal = 95000 /\ tickInterval = 10000) =>
                 /\ n = 10
                 /\ \A i \in 1..10 :
                      LeftIsFractionOf(gridLines[i].left, (i - 1) * 10000)

\* the grid of the example: T = 95 s, k = 10 s, the tenth line at 90 s and
\* none at 100 s
C20_Witness ==
    /\ gridPc = "done"
    /\ gridTotal = 95000
    /\ tickInterval = 10000
    /\ Len(gridLines) = 10
    /\ gridLines[10].left = [num |-> 9000000, den |-> 95000]

(***************************************************************************)
(* App: the document and its handlers.  A stream is a record with id,      *)
(* name, checkOverlap, ex and ns (its colour is left out); a text typed    *)
(* into an input is [number |-> n], or a record without that field when    *)
(* it is no number.                                                        *)
(***************************************************************************)
\* the w-40 label column at the left of every row: 10rem = 160 px
LabelColumnWidth == 160

\* let val = parseFloat(value); if (isNaN(val)) val = 0
ParseFloatOrZero(value) ==
    IF "number" \in DOMAIN value THEN value.number ELSE 0

\* parseInt(val, 10) of a number of seconds: its whole seconds, towards zero
ParseInt(val) ==
    IF val >= 0 THEN (val \div 1000) * 1000 ELSE 0 - (((0 - val) \div 1000) * 1000)

\* ex.filter(b => b.id !== blockId)
FilterOut(ex, blockId) ==
    SelectSeq(ex, LAMBDA b : b.id # blockId)

\* the record r with field f set to v, added when r has no such field
WithField(r, f, v) ==
    [g \in DOMAIN r \cup {f} |-> IF g = f THEN v ELSE r[g]]

\* b.isUnique2 of a block or ns record, undefined counting as false
IsUnique2(r) == IF "isUnique2" \in DOMAIN r THEN r.isUnique2 ELSE FALSE

\* generateId(): an identifier no stream and no block of the document has
AllIds(ts) ==
    { ts[i].id : i \in DOMAIN ts }
    \cup UNION { { ts[i].ex[j].id : j \in DOMAIN ts[i].ex } : i \in DOMAIN ts }

RECURSIVE SetMax(_)
SetMax(S) ==
    IF S = {} THEN 0
    ELSE LET x == CHOOSE y \in S : TRUE
         IN  Max(x, SetMax(S \ {x}))

generateId(ts) == SetMax(AllIds(ts)) + 1

updateTaskProperty(ts, taskId, field, value) ==
    [i \in DOMAIN ts |->
        IF ts[i].id = taskId THEN WithField(ts[i], field, value) ELSE ts[i]]

updateTaskName(ts, taskId, name) ==
    [i \in DOMAIN ts |->
        IF ts[i].id = taskId THEN [ts[i] EXCEPT !.name = name] ELSE ts[i]]

\* mutant: the new block is added and the stream's ns start is reset to 0
addExBlock_ResetsNs(ts, taskId) ==
    [i \in DOMAIN ts |->
        IF ts[i].id = taskId
        THEN [ts[i] EXCEPT
                !.ex = Append(@, [id |-> generateId(ts), start |-> MIN_ELAPSED_TIME,
                                  castTime |-> 0, duration |-> 30000,
                                  isUnique2 |-> FALSE]),
                !.ns = [@ EXCEPT !.start = 0]]
        ELSE ts[i]]

addExBlock(ts, taskId) ==
    [i \in DOMAIN ts |->
        IF ts[i].id = taskId
        THEN LET task == ts[i]
                 hasLast == Len(task.ex) > 0
                 lastBlock == task.ex[Len(task.ex)]
                 duration == IF hasLast THEN lastBlock.duration ELSE 30000
                 castTime == IF hasLast THEN CastTimeOf(lastBlock) ELSE 0
                 isUnique2 == IF hasLast THEN IsUnique2(lastBlock) ELSE FALSE
                 newStart == IF hasLast
                             THEN lastBlock.start + duration + castTime + 5000
                             ELSE MIN_ELAPSED_TIME
             IN  [task EXCEPT !.ex =
                     Append(@, [id |-> generateId(ts),
                                start |-> IF newStart < MIN_ELAPSED_TIME
                                          THEN MIN_ELAPSED_TIME ELSE newStart,
                                castTime |-> castTime, duration |-> duration,
                                isUnique2 |-> isUnique2])]
        ELSE ts[i]]

removeExBlock(ts, taskId, blockId) ==
    [i \in DOMAIN ts |->
        IF ts[i].id = taskId
        THEN [ts[i] EXCEPT !.ex = FilterOut(@, blockId)]
        ELSE ts[i]]

\* the block b after updateExBlock's assignment of val to field; a duration
\* keeps its three decimals under toFixed(3), being a whole number of
\* thousandths
UpdatedBlock(b, totalDur, field, val) ==
    CASE field = "startRemaining" ->
            WithField(b, "start", fromRemaining(val, totalDur))
      [] field = "start"    -> WithField(b, "start", val)
      [] field = "castTime" -> WithField(b, "castTime", val)
      [] field = "duration" -> WithField(b, "duration", val)
      [] OTHER -> WithField(b, field, Max(0, ParseInt(val)))

updateExBlock(ts, totalDur, taskId, blockId, field, value) ==
    [i \in DOMAIN ts |->
        IF ts[i].id = taskId
        THEN LET val == ParseFloatOrZero(value)
             IN  [ts[i] EXCEPT !.ex =
                     [j \in DOMAIN @ |->
                         IF @[j].id = blockId
                         THEN UpdatedBlock(@[j], totalDur, field, val)
                         ELSE @[j]]]
        ELSE ts[i]]

\* a duration in thousandths rescaled by calculateUniqueDuration
UniqueDurationOf(duration, isUnique) ==
    calculateUniqueDuration(duration * SubTicks, isUnique) \div SubTicks

\* the block or ns record r with its flag flipped and its duration rescaled
ToggledUnique2(r) ==
    LET newIsUnique2 == ~IsUnique2(r)
        newDuration == UniqueDurationOf(r.duration, newIsUnique2)
    IN  WithField([r EXCEPT !.duration = newDuration], "isUnique2", newIsUnique2)

toggleExUnique2(ts, taskId, blockId) ==
    [i \in DOMAIN ts |->
        IF ts[i].id = taskId
        THEN [ts[i] EXCEPT !.ex =
                [j \in DOMAIN @ |->
                    IF @[j].id = blockId THEN ToggledUnique2(@[j]) ELSE @[j]]]
        ELSE ts[i]]

updateNsConfig(ts, totalDur, taskId, field, value) ==
    [i \in DOMAIN ts |->
        IF ts[i].id = taskId
        THEN LET val == ParseFloatOrZero(value)
                 safeVal == CASE field = "startRemaining" -> fromRemaining(val, totalDur)
                              [] field = "start"    -> val
                              [] field = "castTime" -> val
                              [] field = "duration" -> val
                              [] OTHER -> Max(0, ParseInt(val))
                 target == IF field = "startRemaining" THEN "start" ELSE field
             IN  [ts[i] EXCEPT !.ns = WithField(@, target, safeVal)]
        ELSE ts[i]]

toggleNsUnique2(ts, taskId) ==
    [i \in DOMAIN ts |->
        IF ts[i].id = taskId
        THEN [ts[i] EXCEPT !.ns = ToggledUnique2(@)]
        ELSE ts[i]]

\* the built-in default streams
initialTasks ==
    LET stream(i, name, exStart, exDuration) ==
            [id |-> i, name |-> name, checkOverlap |-> TRUE,
             ex |-> << [id |-> 10 + i, start |-> exStart, castTime |-> 0,
                        duration |-> exDuration] >>,
             ns |-> DefaultNs]
    IN  << stream(1, "Striker1", MIN_ELAPSED_TIME, 28000),
           stream(2, "Striker2", 30000, 45000),
           stream(3, "Striker3", 75000, 45000),
           stream(4, "Striker4", 120000, 45000),
           stream(5, "Special1", 165000, 30000),
           stream(6, "Special2", 195000, 13000) >>

(***************************************************************************)
(* App: dragging.  dragState is << >> for null and <<context>> otherwise;  *)
(* pendingFrame holds the animation frames that are requested and have     *)
(* neither run nor been cancelled, in the order of the requests, each with *)
(* what its callback closes over: clientX, the pointer position of the     *)
(* mousemove event, dragState and totalDuration.  Widths are in pixels.    *)
(***************************************************************************)
\* the width of the scroll container's first child:
\* width: scale * 100 %, minWidth: 100 %
ActualWidth(visibleWidth, zi) ==
    Max(ZOOM_LEVELS[zi + 1].scale * visibleWidth, visibleWidth)

\* the width of the flex-1 area of a row, to which the bars' left and width
\* percentages refer: the row without its label column
TrackWidth(visibleWidth, zi) ==
    ActualWidth(visibleWidth, zi) - LabelColumnWidth

\* mutant: the candidate start is not floored at MIN_ELAPSED_TIME
DragCandidate_NoFloor(ds, clientX, actualWidth, totalDur) ==
    ds.originalStart + ((clientX - ds.startX) * totalDur) \div actualWidth

\* mutant: the candidate start is also capped at the total duration
DragCandidate_Ceiling(ds, clientX, actualWidth, totalDur) ==
    Min(totalDur,
        Max(MIN_ELAPSED_TIME,
            ds.originalStart + ((clientX - ds.startX) * totalDur) \div actualWidth))

\* the body of the animation-frame callback: the pointer positions drawn
\* make (deltaX / actualWidth) * totalDuration a whole number of thousandths
DragCandidate(ds, clientX, actualWidth, totalDur) ==
    LET deltaX == clientX - ds.startX
        deltaSeconds == (deltaX * totalDur) \div actualWidth
        newStart == ds.originalStart + deltaSeconds
    IN  Max(MIN_ELAPSED_TIME, newStart)

\* tasksRef.current.find(t => t.id === taskId), as a set of positions
FindTask(ts, taskId) == { i \in DOMAIN ts : ts[i].id = taskId }

FindBlock(ex, blockId) == { j \in DOMAIN ex : ex[j].id = blockId }

\* onMouseDown's startValue
StartValue(ts, taskId, type, subId) ==
    LET task == ts[CHOOSE i \in FindTask(ts, taskId) : TRUE]
    IN  IF type = "ex"
        THEN IF FindBlock(task.ex, subId) = {} THEN 0
             ELSE task.ex[CHOOSE j \in FindBlock(task.ex, subId) : TRUE].start
        ELSE task.ns.start

\* task.ns.gap || 30
GapOr30(ns) == IF ns.gap = 0 THEN 30000 ELSE ns.gap

\* mutant: the release discards the candidate start
CommitDrag_Discard(ts, totalDur, ds) == ts

\* the ex branch of onMouseUp: the dragged block takes the candidate start
CommitExDrag(ts, ds) ==
    [i \in DOMAIN ts |->
        IF ts[i].id = ds.taskId
        THEN [ts[i] EXCEPT !.ex =
                [j \in DOMAIN @ |->
                    IF @[j].id = ds.subId
                    THEN WithField(@[j], "start", ds.currentStart)
                    ELSE @[j]]]
        ELSE ts[i]]

\* mutant: the release of a repeating stream also stores the drag delta as gap
CommitDrag_NsMovesGap(ts, totalDur, ds) ==
    IF ds.type = "ex"
    THEN CommitExDrag(ts, ds)
    ELSE [i \in DOMAIN ts |->
            IF ts[i].id = ds.taskId
            THEN [ts[i] EXCEPT
                    !.ns = [@ EXCEPT
                              !.start = Max(MIN_ELAPSED_TIME, ds.currentStart),
                              !.gap = @ + (ds.currentStart - ds.originalStart)]]
            ELSE ts[i]]

\* the document update of onMouseUp
CommitDrag(ts, totalDur, ds) ==
    IF ds.type = "ex"
    THEN CommitExDrag(ts, ds)
    ELSE IF FindTask(ts, ds.taskId) = {} THEN ts
         ELSE LET task == ts[CHOOSE i \in FindTask(ts, ds.taskId) : TRUE]
                  barIndex == ds.subId
                  gap == GapOr30(task.ns)
                  newStart == Max(MIN_ELAPSED_TIME, ds.currentStart - (barIndex * gap))
              IN  updateNsConfig(ts, totalDur, ds.taskId, "start", [number |-> newStart])

(***************************************************************************)
(* GanttChartRow: where a bar is drawn and the remaining time it shows     *)
(***************************************************************************)
\* isDraggingThis of a one-shot block
ExIsDraggingThis(dst, task, block) ==
    /\ dst # << >>
    /\ dst[1].type = "ex"
    /\ dst[1].taskId = task.id
    /\ dst[1].subId = block.id

ExDisplayStart(dst, task, block) ==
    IF ExIsDraggingThis(dst, task, block) THEN dst[1].currentStart ELSE block.start

ExDisplayTimeStart(dst, task, block) ==
    IF ExIsDraggingThis(dst, task, block) THEN dst[1].originalStart ELSE block.start

\* the remaining time shown on a one-shot block
ExRemaining(dst, task, block, totalDur) ==
    toRemaining(ExDisplayTimeStart(dst, task, block), totalDur)

\* isDraggingThis of the bars of a repeating stream
NsIsDraggingThis(dst, task) ==
    /\ dst # << >>
    /\ dst[1].type = "ns"
    /\ dst[1].taskId = task.id

\* nsBars has a bar of index i
NsHasBar(task, totalDur, i) ==
    /\ i < maxBars
    /\ ~BreakOnStart(task.ns, totalDur, i)

\* bar.start of the bar of index i
NsBarStart(task, i) == currentStart(task.ns, i)

NsDisplayStart(dst, task, i) ==
    IF NsIsDraggingThis(dst, task)
    THEN NsBarStart(task, i) + (dst[1].currentStart - dst[1].originalStart)
    ELSE NsBarStart(task, i)

\* the remaining time shown on the bar of index i
NsRemaining(dst, task, i, totalDur) ==
    LET originalBaseStart == task.ns.start + (i * task.ns.gap)
    IN  toRemaining(IF NsIsDraggingThis(dst, task) THEN originalBaseStart
                    ELSE NsBarStart(task, i),
                    totalDur)

\* if (leftPercent >= 100) return null
NsIsDrawn(dst, task, totalDur, i) ==
    /\ NsHasBar(task, totalDur, i)
    /\ NsDisplayStart(dst, task, i) < totalDur

\* const isDraggable = bar.index === 0
NsIsDraggable(i) == i = 0

(***************************************************************************)
(* Inputs of the application                                               *)
(***************************************************************************)
\* the handlers that edit the document, the zoom or the total duration, and
\* the drags begun, in one behaviour
MaxSteps == 2

\* the positions in the stream list of the streams the user works on
OperatedStreams == {1, 2}

\* a text that is no number
NotANumber == [text |-> ""]

Number(n) == [number |-> n]

\* the times typed into a TimeInput: 0:00.000, 2:30.000 and 16:39.000
TypedTimes == {0, 150000, 999000}

\* handleCommit: the typed time held between min and max
TimeInputCommit(totalSeconds, min, max) == Min(Max(totalSeconds, min), max)

\* the texts typed into the castTime and duration inputs of a one-shot block
ExFieldTexts ==
    { <<"castTime", Number(2000)>>, <<"castTime", NotANumber>>,
      <<"duration", Number(5000)>> }

\* the texts typed into the inputs of a repeating stream
NsFieldTexts ==
    { <<"start", NotANumber>>, <<"start", Number(40000)>>,
      <<"castTime", Number(1000)>>, <<"duration", Number(5000)>>,
      <<"gap", NotANumber>>, <<"gap", Number(20500)>> }

\* the pointer position at which a bar is pressed
PointerDownXs == {500}

\* how far from there the pointer is moved, in pixels
PointerOffsets == {-1000, 100, 1000}

\* the bars of a repeating stream the pointer is pressed on
PressedBars == {0, 1}

\* the widths of the scroll container, in pixels
ViewportWidths == {1000}

\* a line of an imported file that is empty once trimmed
BlankLine == [blank |-> TRUE]

\* imported files, line by line: the parsed parts of a line, or a blank
\* line; a file of one line without a name, a file of two lines with a
\* blank line between them, a file of blank lines and an empty file
ImportFiles ==
    { << [name |-> "", nsStart |-> NotANumber, nsCast |-> NotANumber,
          nsDuration |-> NotANumber, nsGap |-> NotANumber] >>,
      << [name |-> "B", nsStart |-> Number(0), nsCast |-> Number(0),
          nsDuration |-> Number(20000), nsGap |-> Number(0)],
         BlankLine,
         [name |-> "A", nsStart |-> NotANumber, nsCast |-> NotANumber,
          nsDuration |-> NotANumber, nsGap |-> NotANumber] >>,
      << BlankLine, BlankLine >>,
      << >> }

\* text.split(/\r\n|\n/).map(line => line.trim()).filter(line => line !== '')
NonEmptyLines(file) == SelectSeq(file, LAMBDA line : "blank" \notin DOMAIN line)

\* parts[0] || `Task ${index + 1}`, index counting from 0
ImportedName(line, k) ==
    IF "name" \in DOMAIN line /\ line.name # ""
    THEN line.name
    ELSE "Task " \o ToString(k)

\* !isNaN(x) ? x : fallback
NumberOr(value, fallback) ==
    IF "number" \in DOMAIN value THEN value.number ELSE fallback

\* parseFloat(parts[i]) of a line, fallback when it is NaN
ImportedNumber(line, part, fallback) ==
    IF part \in DOMAIN line THEN NumberOr(line[part], fallback) ELSE fallback

\* importedTasks, the identifiers being fresh ones
importedTasks(ts, lines) ==
    [k \in DOMAIN lines |->
        [id |-> generateId(ts) + k - 1,
         name |-> ImportedName(lines[k], k),
         checkOverlap |-> TRUE,
         ex |-> << >>,
         ns |-> [start |-> ImportedNumber(lines[k], "nsStart", MIN_ELAPSED_TIME),
                 castTime |-> ImportedNumber(lines[k], "nsCast", 0),
                 duration |-> ImportedNumber(lines[k], "nsDuration", 20000),
                 gap |-> ImportedNumber(lines[k], "nsGap", 30000),
                 enabled |-> TRUE,
                 isUnique2 |-> FALSE]]]

(***************************************************************************)
(* The persisted document.  The text localStorage holds under STORAGE_KEY  *)
(* is << >> when there is none (getItem returns null), and otherwise one   *)
(* record: text "object" with the object it is the JSON of, "empty" for    *)
(* the empty string, "null" for the JSON of null and "garbage" for a text  *)
(* JSON.parse rejects.                                                     *)
(***************************************************************************)
\* const dataToSave = { totalDuration, chartTitle, tasks }
DataToSave(totalDur, title, ts) ==
    [totalDuration |-> totalDur, chartTitle |-> title, tasks |-> ts]

\* JSON.stringify(dataToSave)
JSONStringify(value) == [text |-> "object", value |-> value]

\* mutant: the save effect without its isLoaded test
SaveEffect_Unguarded(loaded, data, store) == << JSONStringify(data) >>

\* the save effect: if (!isLoaded) return; then
\* localStorage.setItem(STORAGE_KEY, JSON.stringify(dataToSave))
SaveEffect(loaded, data, store) ==
    IF ~loaded THEN store ELSE << JSONStringify(data) >>

\* if (savedData): getItem gave a text that is not the empty string
HasSavedData(store) == store # << >> /\ store[1].text # "empty"

\* the try block throws: JSON.parse rejects the text, or the text is the
\* JSON of null and parsed.totalDuration is read from null
LoadThrows(store) == store[1].text \in {"garbage", "null"}

\* parsed.totalDuration || 210
ParsedTotalDuration(parsed) ==
    IF "totalDuration" \in DOMAIN parsed /\ parsed.totalDuration # 0
    THEN parsed.totalDuration
    ELSE DefaultTotalDuration

\* mutant: the stored title kept as it is
ParsedChartTitle_AsStored(parsed) ==
    IF "chartTitle" \in DOMAIN parsed THEN parsed.chartTitle ELSE DefaultChartTitle

\* parsed.chartTitle || the default title
ParsedChartTitle(parsed) ==
    IF "chartTitle" \in DOMAIN parsed /\ parsed.chartTitle # ""
    THEN parsed.chartTitle
    ELSE DefaultChartTitle

\* mutant: a stored document without streams is loaded as it is
ParsedTasks_KeepsEmpty(parsed) ==
    IF "tasks" \in DOMAIN parsed THEN parsed.tasks ELSE initialTasks

\* parsed.tasks && parsed.tasks.length > 0 ? parsed.tasks : initialTasks
ParsedTasks(parsed) ==
    IF "tasks" \in DOMAIN parsed /\ Len(parsed.tasks) > 0
    THEN parsed.tasks
    ELSE initialTasks

\* the state updates the load effect queues: the setters it calls, and
\* setIsLoaded(true) of its finally block
LoadEffectUpdates(store) ==
    IF ~HasSavedData(store) THEN [tasks |-> initialTasks, isLoaded |-> TRUE]
    ELSE IF LoadThrows(store) THEN [tasks |-> initialTasks, isLoaded |-> TRUE]
    ELSE LET parsed == store[1].value
         IN  [totalDuration |-> ParsedTotalDuration(parsed),
              chartTitle |-> ParsedChartTitle(parsed),
              tasks |-> ParsedTasks(parsed),
              isLoaded |-> TRUE]

\* a state value after the queued updates are applied
Applied(updates, field, current) ==
    IF field \in DOMAIN updates THEN updates[field] ELSE current

(***************************************************************************)
(* Specification of the application: the default document is loaded; the   *)
(* handlers edit it, and bars are dragged.  While a drag is active the     *)
(* pointer is held on the chart and no other handler runs.                 *)
(***************************************************************************)
InitApp ==
    /\ tasks = initialTasks
    /\ totalDuration = DefaultTotalDuration
    /\ overlaps = calculateExOverlaps(initialTasks, DefaultTotalDuration)
    /\ ovPc = "done"
    /\ dragState = << >>
    /\ pendingFrame = << >>
    /\ zoomIndex = 0
    /\ viewportWidth \in ViewportWidths
    /\ steps = 0
    /\ chartTitle = DefaultChartTitle
    /\ isLoaded = TRUE
    /\ storage = << JSONStringify(DataToSave(totalDuration, chartTitle, tasks)) >>
    /\ queued = << >>
    /\ loadPc = "ready"
    /\ outputText = << >>
    /\ showOutputModal = FALSE
    /\ NsIdle
    /\ TtIdle
    /\ UdIdle
    /\ GridIdle

\* a handler that ends in setTasks(newTasks), the render that follows and
\* the save effect of that render
SetTasks(newTasks) ==
    /\ loadPc = "ready"
    /\ dragState = << >>
    /\ steps < MaxSteps
    /\ tasks' = newTasks
    /\ overlaps' = calculateExOverlaps(newTasks, totalDuration)
    /\ steps' = steps + 1
    /\ UNCHANGED <<totalDuration, ovPc>>
    /\ UNCHANGED <<dragState, pendingFrame, zoomIndex, viewportWidth>>
    /\ storage' = SaveEffect(isLoaded, DataToSave(totalDuration', chartTitle, tasks'),
                              storage)
    /\ UNCHANGED <<chartTitle, isLoaded, queued, loadPc, outputText, showOutputModal>>
    /\ UNCHANGED nsVars
    /\ UNCHANGED ttVars
    /\ UNCHANGED udVars
    /\ UNCHANGED gridVars

\* the streams worked on, and their blocks
Operated == OperatedStreams \cap DOMAIN tasks

UpdateTaskName ==
    \E p \in Operated :
        SetTasks(updateTaskName(tasks, tasks[p].id, "Renamed"))

\* onUpdateTaskProperty(task.id, 'checkOverlap', e.target.checked)
UpdateTaskProperty ==
    \E p \in Operated :
        SetTasks(updateTaskProperty(tasks, tasks[p].id, "checkOverlap",
                                    ~tasks[p].checkOverlap))

AddExBlock ==
    \E p \in Operated :
        SetTasks(addExBlock(tasks, tasks[p].id))

RemoveExBlock ==
    \E p \in Operated : \E j \in DOMAIN tasks[p].ex :
        SetTasks(removeExBlock(tasks, tasks[p].id, tasks[p].ex[j].id))

\* the TimeInput of the block's start, and its castTime and duration inputs
UpdateExBlock ==
    \E p \in Operated : \E j \in DOMAIN tasks[p].ex :
        \/ \E typed \in TypedTimes :
             LET val == TimeInputCommit(typed, 0, totalDuration - MIN_ELAPSED_TIME)
             IN  SetTasks(updateExBlock(tasks, totalDuration, tasks[p].id,
                                        tasks[p].ex[j].id, "startRemaining", Number(val)))
        \/ \E ft \in ExFieldTexts :
             SetTasks(updateExBlock(tasks, totalDuration, tasks[p].id,
                                    tasks[p].ex[j].id, ft[1], ft[2]))

ToggleExUnique2 ==
    \E p \in Operated : \E j \in DOMAIN tasks[p].ex :
        SetTasks(toggleExUnique2(tasks, tasks[p].id, tasks[p].ex[j].id))

UpdateNsConfig ==
    \E p \in Operated : \E ft \in NsFieldTexts :
        SetTasks(updateNsConfig(tasks, totalDuration, tasks[p].id, ft[1], ft[2]))

ToggleNsUnique2 ==
    \E p \in Operated :
        SetTasks(toggleNsUnique2(tasks, tasks[p].id))

\* handleBarDoubleClick on a one-shot block, a time typed into the modal's
\* TimeInput, then saveEditedTime
SaveEditedTime ==
    \E p \in Operated : \E j \in DOMAIN tasks[p].ex : \E typed \in TypedTimes :
        LET newRemaining == TimeInputCommit(typed, 0, totalDuration - MIN_ELAPSED_TIME)
            newStart == fromRemaining(newRemaining, totalDuration)
        IN  SetTasks(updateExBlock(tasks, totalDuration, tasks[p].id,
                                   tasks[p].ex[j].id, "start", Number(newStart)))

\* handleImport once the file is read: the confirmation is asked for when
\* there is a non-empty line, and accepted or declined; nothing is set when
\* it is declined or when the alert is shown
HandleImport ==
    \E file \in ImportFiles : \E confirmed \in BOOLEAN :
        LET lines == NonEmptyLines(file)
        IN  IF Len(lines) > 0 /\ confirmed
            THEN SetTasks(importedTasks(tasks, lines))
            ELSE /\ loadPc = "ready"
                 /\ dragState = << >>
                 /\ steps < MaxSteps
                 /\ steps' = steps + 1
                 /\ UNCHANGED ovVars
                 /\ UNCHANGED <<dragState, pendingFrame, zoomIndex, viewportWidth>>
                 /\ UNCHANGED ioVars
                 /\ UNCHANGED nsVars
                 /\ UNCHANGED ttVars
                 /\ UNCHANGED udVars
                 /\ UNCHANGED gridVars

\* resetData, the confirmation accepted
ResetData ==
    /\ loadPc = "ready"
    /\ dragState = << >>
    /\ steps < MaxSteps
    /\ tasks' = initialTasks
    /\ totalDuration' = DefaultTotalDuration
    /\ overlaps' = calculateExOverlaps(initialTasks, DefaultTotalDuration)
    /\ steps' = steps + 1
    /\ UNCHANGED ovPc
    /\ UNCHANGED <<dragState, pendingFrame, zoomIndex, viewportWidth>>
    /\ storage' = SaveEffect(isLoaded, DataToSave(totalDuration', chartTitle, tasks'),
                              storage)
    /\ UNCHANGED <<chartTitle, isLoaded, queued, loadPc, outputText, showOutputModal>>
    /\ UNCHANGED nsVars
    /\ UNCHANGED ttVars
    /\ UNCHANGED udVars
    /\ UNCHANGED gridVars

\* onClick={() => setTotalDuration(opt.value)}
SelectTotalDuration ==
    /\ loadPc = "ready"
    /\ dragState = << >>
    /\ steps < MaxSteps
    /\ \E o \in DOMAIN TIME_OPTIONS : totalDuration' = TIME_OPTIONS[o]
    /\ overlaps' = calculateExOverlaps(tasks, totalDuration')
    /\ steps' = steps + 1
    /\ UNCHANGED <<tasks, ovPc>>
    /\ UNCHANGED <<dragState, pendingFrame, zoomIndex, viewportWidth>>
    /\ storage' = SaveEffect(isLoaded, DataToSave(totalDuration', chartTitle, tasks'),
                              storage)
    /\ UNCHANGED <<chartTitle, isLoaded, queued, loadPc, outputText, showOutputModal>>
    /\ UNCHANGED nsVars
    /\ UNCHANGED ttVars
    /\ UNCHANGED udVars
    /\ UNCHANGED gridVars

\* the zoom buttons: setZoomIndex(Math.max(0, zoomIndex - 1)) and
\* setZoomIndex(Math.min(ZOOM_LEVELS.length - 1, zoomIndex + 1))
SetZoomIndex ==
    /\ loadPc = "ready"
    /\ dragState = << >>
    /\ steps < MaxSteps
    /\ \/ zoomIndex' = Max(0, zoomIndex - 1)
       \/ zoomIndex' = Min(Len(ZOOM_LEVELS) - 1, zoomIndex + 1)
    /\ steps' = steps + 1
    /\ UNCHANGED ovVars
    /\ UNCHANGED <<dragState, pendingFrame, viewportWidth>>
    /\ UNCHANGED ioVars
    /\ UNCHANGED nsVars
    /\ UNCHANGED ttVars
    /\ UNCHANGED udVars
    /\ UNCHANGED gridVars

\* setDragState({ taskId, type, subId, startX, originalStart, currentStart })
BeginDrag(taskId, type, subId, clientX) ==
    /\ loadPc = "ready"
    /\ dragState = << >>
    /\ steps < MaxSteps
    /\ FindTask(tasks, taskId) # {}
    /\ LET startValue == StartValue(tasks, taskId, type, subId)
       IN  dragState' = << [taskId |-> taskId, type |-> type, subId |-> subId,
                            startX |-> clientX,
                            originalStart |-> startValue,
                            currentStart |-> startValue] >>
    /\ steps' = steps + 1
    /\ UNCHANGED ovVars
    /\ UNCHANGED <<pendingFrame, zoomIndex, viewportWidth>>
    /\ UNCHANGED ioVars
    /\ UNCHANGED nsVars
    /\ UNCHANGED ttVars
    /\ UNCHANGED udVars
    /\ UNCHANGED gridVars

\* the pointer pressed on a one-shot block, or on a bar of a repeating
\* stream: onMouseDown={(e) => isDraggable && onMouseDown(...)}
OnMouseDown ==
    \E p \in Operated : \E x \in PointerDownXs :
        \/ \E j \in DOMAIN tasks[p].ex :
             BeginDrag(tasks[p].id, "ex", tasks[p].ex[j].id, x)
        \/ \E i \in PressedBars :
             /\ NsIsDrawn(dragState, tasks[p], totalDuration, i)
             /\ NsIsDraggable(i)
             /\ BeginDrag(tasks[p].id, "ns", i, x)

\* cancelAnimationFrame(animationFrameRef.current): the ref names the
\* frame requested last, which is the last of the scheduled frames when it
\* has not run yet
cancelAnimationFrame(frames) ==
    IF frames = << >> THEN << >> ELSE SubSeq(frames, 1, Len(frames) - 1)

\* mutant: onMouseMove leaves the scheduled frame in place
CancelOnMove_Keeps(frames) == frames

\* if (animationFrameRef.current) cancelAnimationFrame(...) of onMouseMove
CancelOnMove(frames) == cancelAnimationFrame(frames)

\* mutant: onMouseUp leaves the scheduled frame in place
CancelOnRelease_Keeps(frames) == frames

\* if (animationFrameRef.current) cancelAnimationFrame(...) of onMouseUp
CancelOnRelease(frames) == cancelAnimationFrame(frames)

\* mutant: the frame moves the origin of the drag along with the candidate
FrameUpdate_MovesOrigin(prev, newStart) ==
    IF prev = << >>
    THEN << [currentStart |-> newStart] >>
    ELSE << [prev[1] EXCEPT !.currentStart = newStart, !.originalStart = newStart] >>

\* setDragState(prev => ({ ...prev, currentStart: newStart }))
FrameUpdate(prev, newStart) ==
    IF prev = << >>
    THEN << [currentStart |-> newStart] >>
    ELSE << [prev[1] EXCEPT !.currentStart = newStart] >>

\* onMouseMove: the pending frame is cancelled and a new one requested, its
\* callback closing over the event, dragState and totalDuration
OnMouseMove ==
    /\ dragState # << >>
    /\ \E d \in PointerOffsets :
         pendingFrame' = Append(CancelOnMove(pendingFrame),
                                [clientX |-> dragState[1].startX + d,
                                 dragState |-> dragState[1],
                                 totalDuration |-> totalDuration])
    /\ UNCHANGED ovVars
    /\ UNCHANGED <<dragState, zoomIndex, viewportWidth, steps>>
    /\ UNCHANGED ioVars
    /\ UNCHANGED nsVars
    /\ UNCHANGED ttVars
    /\ UNCHANGED udVars
    /\ UNCHANGED gridVars

\* the display refresh runs the callback that was scheduled first:
\* setDragState(prev => ({ ...prev, currentStart: newStart }))
AnimationFrame ==
    /\ pendingFrame # << >>
    /\ LET e == Head(pendingFrame)
           actualWidth == ActualWidth(viewportWidth, zoomIndex)
           newStart == DragCandidate(e.dragState, e.clientX, actualWidth, e.totalDuration)
       IN  dragState' = FrameUpdate(dragState, newStart)
    /\ pendingFrame' = Tail(pendingFrame)
    /\ UNCHANGED ovVars
    /\ UNCHANGED <<zoomIndex, viewportWidth, steps>>
    /\ UNCHANGED ioVars
    /\ UNCHANGED nsVars
    /\ UNCHANGED ttVars
    /\ UNCHANGED udVars
    /\ UNCHANGED gridVars

\* onMouseUp: the pending frame is cancelled, the candidate start stored and
\* the drag context cleared; the save effect follows the render
OnMouseUp ==
    /\ dragState # << >>
    /\ pendingFrame' = CancelOnRelease(pendingFrame)
    /\ tasks' = CommitDrag(tasks, totalDuration, dragState[1])
    /\ overlaps' = calculateExOverlaps(tasks', totalDuration)
    /\ dragState' = << >>
    /\ UNCHANGED <<totalDuration, ovPc>>
    /\ UNCHANGED <<zoomIndex, viewportWidth, steps>>
    /\ storage' = SaveEffect(isLoaded, DataToSave(totalDuration', chartTitle, tasks'),
                              storage)
    /\ UNCHANGED <<chartTitle, isLoaded, queued, loadPc, outputText, showOutputModal>>
    /\ UNCHANGED nsVars
    /\ UNCHANGED ttVars
    /\ UNCHANGED udVars
    /\ UNCHANGED gridVars

NextApp ==
    \/ UpdateTaskName
    \/ UpdateTaskProperty
    \/ AddExBlock
    \/ RemoveExBlock
    \/ UpdateExBlock
    \/ ToggleExUnique2
    \/ UpdateNsConfig
    \/ ToggleNsUnique2
    \/ SaveEditedTime
    \/ HandleImport
    \/ ResetData
    \/ SelectTotalDuration
    \/ SetZoomIndex
    \/ OnMouseDown
    \/ OnMouseMove
    \/ AnimationFrame
    \/ OnMouseUp

SpecApp == InitApp /\ [][NextApp]_vars

(***************************************************************************)
(* Claims about the application (SpecApp)                                  *)
(***************************************************************************)
\* C19: in every state reached from the default document or an imported one
\* by adding, removing and editing one-shot intervals, unique toggles, drags,
\* total-duration changes and resets, the stored start of every one-shot
\* interval is >= MIN_ELAPSED.
C19_ExStartsFloored ==
    \A i \in DOMAIN tasks : \A j \in DOMAIN tasks[i].ex :
        tasks[i].ex[j].start >= MIN_ELAPSED_TIME

\* the second default stream's interval, stored at 30 s, has been brought
\* to MIN_ELAPSED: a drag far to the left was released, or a remaining time
\* beyond the window was typed
C19_Witness ==
    /\ dragState = << >>
    /\ steps = 1
    /\ Len(tasks) = 6
    /\ Len(tasks[2].ex) = 1
    /\ tasks[2].ex[1].start = MIN_ELAPSED_TIME
    /\ tasks[2].ex[1].duration = 45000
    /\ zoomIndex = 0
    /\ totalDuration = DefaultTotalDuration

(***************************************************************************)
(* Specification of a drag on its own: a stored document of one stream is  *)
(* loaded at some total duration and zoom level, a drag has begun on its   *)
(* one-shot block or on its first repeating bar; pointer moves and         *)
(* animation frames follow                                                 *)
(***************************************************************************)
\* parsed.totalDuration of the stored document
DragTotals == { 200000 } \cup { TIME_OPTIONS[o] : o \in DOMAIN TIME_OPTIONS }

\* the stored start of the bar that is dragged
DragStarts == { MIN_ELAPSED_TIME, 50000, 195000 }

StoredDocument(start) ==
    << [id |-> 1, name |-> "Striker1", checkOverlap |-> TRUE,
        ex |-> << [id |-> 11, start |-> start, castTime |-> 0, duration |-> 28000] >>,
        ns |-> [DefaultNs EXCEPT !.start = start]] >>

InitDrag ==
    /\ \E start \in DragStarts : tasks = StoredDocument(start)
    /\ totalDuration \in DragTotals
    /\ overlaps = calculateExOverlaps(tasks, totalDuration)
    /\ ovPc = "done"
    /\ zoomIndex \in 0..(Len(ZOOM_LEVELS) - 1)
    /\ viewportWidth \in ViewportWidths
    /\ \E type \in {"ex", "ns"} : \E x \in PointerDownXs :
         LET subId == IF type = "ex" THEN tasks[1].ex[1].id ELSE 0
             startValue == StartValue(tasks, tasks[1].id, type, subId)
         IN  dragState = << [taskId |-> tasks[1].id, type |-> type, subId |-> subId,
                             startX |-> x,
                             originalStart |-> startValue,
                             currentStart |-> startValue] >>
    /\ pendingFrame = << >>
    /\ steps = 1
    /\ chartTitle = DefaultChartTitle
    /\ isLoaded = TRUE
    /\ storage = << JSONStringify(DataToSave(totalDuration, chartTitle, tasks)) >>
    /\ queued = << >>
    /\ loadPc = "ready"
    /\ outputText = << >>
    /\ showOutputModal = FALSE
    /\ NsIdle
    /\ TtIdle
    /\ UdIdle
    /\ GridIdle

NextDrag == OnMouseMove \/ AnimationFrame

SpecDrag == InitDrag /\ [][NextDrag]_vars

(***************************************************************************)
(* Claims about the drag mapping (SpecDrag)                                *)
(***************************************************************************)
\* this step is an animation-frame callback processing a pointer move of
\* the active drag
FrameStep ==
    /\ pendingFrame # << >>
    /\ pendingFrame' = << >>
    /\ dragState # << >>
    /\ dragState' # << >>

\* the pointer displacement the callback processes, in pixels
PixelDelta == pendingFrame[1].clientX - dragState[1].startX

\* originalStart + (pixelDelta / width) * totalDuration, width being the
\* width the callback divides by
UnclampedCandidate ==
    dragState[1].originalStart
        + (PixelDelta * totalDuration) \div ActualWidth(viewportWidth, zoomIndex)

\* the division above leaves no remainder
CandidateIsExact ==
    (PixelDelta * totalDuration) % ActualWidth(viewportWidth, zoomIndex) = 0

\* C13: on every processed pointer move the candidate start is
\* max(MIN_ELAPSED, originalStart + (pixelDelta / width) * totalDuration): never
\* below MIN_ELAPSED and with no upper clamp; with width 1000, totalDuration
\* 200 s and originalStart 50 s a pixelDelta of 100 gives 70 s and one of
\* -1000 gives MIN_ELAPSED.
C13_CandidateStart ==
    [][FrameStep =>
        LET c == dragState'[1].currentStart
        IN  /\ CandidateIsExact
            /\ c >= MIN_ELAPSED_TIME
            /\ UnclampedCandidate >= MIN_ELAPSED_TIME => c = UnclampedCandidate
            /\ UnclampedCandidate < MIN_ELAPSED_TIME => c = MIN_ELAPSED_TIME
            /\ ( /\ ActualWidth(viewportWidth, zoomIndex) = 1000
                 /\ totalDuration = 200000
                 /\ dragState[1].originalStart = 50000 ) =>
                   /\ PixelDelta = 100 => c = 70000
                   /\ PixelDelta = -1000 => c = MIN_ELAPSED_TIME
    ]_vars

\* a processed move of 1000 pixels at zoom x1 in a 1000-pixel container has
\* put the candidate of a bar stored at 50 s at 250 s, past the 200 s window
C13_Witness ==
    /\ dragState # << >>
    /\ pendingFrame = << >>
    /\ zoomIndex = 0
    /\ viewportWidth = 1000
    /\ totalDuration = 200000
    /\ dragState[1].originalStart = 50000
    /\ dragState[1].currentStart = 250000

\* C14 as stated: the width the drag divides by is the rendered width of the
\* track in which the bars are positioned, so that, unless the floor is
\* engaged, a pointer displacement of p pixels moves the dragged bar's
\* rendered position by exactly p pixels at every zoom level.  A bar at start
\* s is drawn s / totalDuration of the track width from the track's left.
C14_AsStated ==
    [][FrameStep =>
        LET c == dragState'[1].currentStart
            track == TrackWidth(viewportWidth, zoomIndex)
        IN  /\ ActualWidth(viewportWidth, zoomIndex) = track
            /\ UnclampedCandidate >= MIN_ELAPSED_TIME =>
                 (c - dragState[1].originalStart) * track = PixelDelta * totalDuration
    ]_vars

(***************************************************************************)
(* Claims about dragging in the application (SpecApp)                      *)
(***************************************************************************)
\* this step takes an active drag back to no drag
ReleaseStep == dragState # << >> /\ dragState' = << >>

\* C15: releasing the pointer while a drag is active always commits: the
\* dragged one-shot interval's stored start becomes the last candidate start
\* (for repeating occurrence 0 the stream's stored start becomes
\* max(MIN_ELAPSED, last candidate)) and the drag context is cleared; no step
\* from an active drag to no drag leaves the change uncommitted.
C15_ReleaseCommits ==
    [][ReleaseStep =>
        LET ds == dragState[1]
        IN  /\ pendingFrame' = << >>
            /\ DOMAIN tasks' = DOMAIN tasks
            /\ \A i \in DOMAIN tasks : tasks[i].id = ds.taskId =>
                 /\ ds.type = "ex" =>
                      /\ DOMAIN tasks'[i].ex = DOMAIN tasks[i].ex
                      /\ \A j \in DOMAIN tasks[i].ex : tasks[i].ex[j].id = ds.subId =>
                           tasks'[i].ex[j].start = ds.currentStart
                 /\ ds.type = "ns" =>
                      tasks'[i].ns.start = Max(MIN_ELAPSED_TIME, ds.currentStart)
    ]_vars

\* the second default stream's interval, stored at 30 s, was dragged 100
\* pixels to the right and released: it is stored at 51 s
C15_Witness ==
    /\ dragState = << >>
    /\ pendingFrame = << >>
    /\ steps = 1
    /\ Len(tasks) = 6
    /\ Len(tasks[2].ex) = 1
    /\ tasks[2].ex[1].start = 51000

\* the bars of a repeating stream whose labels are compared
ShownBars == 0..3

\* C16 as stated: throughout a drag the remaining-time label of the dragged
\* element equals the label it showed just before the drag began, while its
\* position follows the candidate start; for a dragged one-shot interval and
\* for every occurrence of a dragged repeating stream, whatever the stored
\* start and gap are.
C16_AsStated ==
    [][(dragState' # << >> /\ tasks' = tasks /\ totalDuration' = totalDuration) =>
        LET ds == dragState'[1]
        IN  \A i \in DOMAIN tasks : tasks[i].id = ds.taskId =>
              /\ ds.type = "ex" =>
                   \A j \in DOMAIN tasks[i].ex : tasks[i].ex[j].id = ds.subId =>
                     /\ ExRemaining(dragState', tasks[i], tasks[i].ex[j], totalDuration)
                          = ExRemaining(dragState, tasks[i], tasks[i].ex[j], totalDuration)
                     /\ ExDisplayStart(dragState', tasks[i], tasks[i].ex[j])
                          = ds.currentStart
              /\ ds.type = "ns" =>
                   \A n \in ShownBars : NsHasBar(tasks[i], totalDuration, n) =>
                     /\ NsRemaining(dragState', tasks[i], n, totalDuration)
                          = NsRemaining(dragState, tasks[i], n, totalDuration)
                     /\ NsDisplayStart(dragState', tasks[i], n)
                          = NsBarStart(tasks[i], n) + (ds.currentStart - ds.originalStart)
    ]_vars

\* C17: dragging occurrence 0 of a repeating stream by a time delta d and
\* releasing sets the stream's stored start to its pre-drag start + d, floored
\* at MIN_ELAPSED, and leaves gap, castDelay and duration unchanged, so every
\* occurrence moves by the same amount as occurrence 0; only occurrence 0 can
\* begin such a drag.
C17_NsDragTranslates ==
    /\ []((dragState # << >> /\ dragState[1].type = "ns") => dragState[1].subId = 0)
    /\ [][(ReleaseStep /\ dragState[1].type = "ns") =>
            LET ds == dragState[1]
                d == ds.currentStart - ds.originalStart
            IN  /\ DOMAIN tasks' = DOMAIN tasks
                /\ \A i \in DOMAIN tasks :
                     IF tasks[i].id = ds.taskId
                     THEN /\ tasks'[i].ns.start
                               = Max(MIN_ELAPSED_TIME, tasks[i].ns.start + d)
                          /\ tasks'[i].ns.gap = tasks[i].ns.gap
                          /\ tasks'[i].ns.castTime = tasks[i].ns.castTime
                          /\ tasks'[i].ns.duration = tasks[i].ns.duration
                          /\ \A n \in ShownBars :
                               NsBarStart(tasks'[i], n) - NsBarStart(tasks[i], n)
                                 = NsBarStart(tasks'[i], 0) - NsBarStart(tasks[i], 0)
                     ELSE tasks'[i] = tasks[i]
      ]_vars

\* the first default stream's occurrence 0, stored at 2 s, was dragged 100
\* pixels to the right and released: the stream starts at 23 s with its gap
\* of 30 s
C17_Witness ==
    /\ dragState = << >>
    /\ steps = 1
    /\ Len(tasks) = 6
    /\ tasks[1].ns.start = 23000
    /\ tasks[1].ns.gap = 30000
    /\ tasks[1].ns.duration = 10000

\* the step edits a field of stream i's repeating-event record
OwnNsFieldEdit(i) ==
    /\ dragState = << >>
    /\ \E ft \in NsFieldTexts :
         tasks' = updateNsConfig(tasks, totalDuration, tasks[i].id, ft[1], ft[2])

\* the step toggles stream i's own unique modifier
OwnNsToggle(i) ==
    /\ dragState = << >>
    /\ tasks' = toggleNsUnique2(tasks, tasks[i].id)

\* the step releases a drag of stream i's occurrence 0
OwnNsDragRelease(i) ==
    /\ ReleaseStep
    /\ dragState[1].type = "ns"
    /\ dragState[1].taskId = tasks[i].id
    /\ dragState[1].subId = 0

\* the step replaces the whole document: a reset or an import
DocumentReplaced ==
    /\ dragState = << >>
    /\ \/ tasks' = initialTasks
       \/ \E file \in ImportFiles :
            /\ Len(NonEmptyLines(file)) > 0
            /\ tasks' = importedTasks(tasks, NonEmptyLines(file))

\* C18: a stream's repeating-event record (start, castDelay, gap, duration)
\* changes only through an edit of one of its own fields, its own unique
\* toggle, a drag of its own occurrence 0 or the replacement of the whole
\* document; every other operation, and every operation addressed to another
\* stream, leaves it unchanged.
C18_NsChangesOnlyByOwnOperations ==
    [][\A i \in DOMAIN tasks :
         \/ /\ i \in DOMAIN tasks'
            /\ tasks'[i].id = tasks[i].id
            /\ tasks'[i].ns = tasks[i].ns
         \/ OwnNsFieldEdit(i)
         \/ OwnNsToggle(i)
         \/ OwnNsDragRelease(i)
         \/ DocumentReplaced
    ]_vars

\* a one-shot interval was added to the first default stream and the gap of
\* the second was edited: the first stream's record is the default one
C18_Witness ==
    /\ steps = 2
    /\ Len(tasks) = 6
    /\ Len(tasks[1].ex) = 2
    /\ tasks[1].ns = DefaultNs
    /\ tasks[2].ns.gap = 20000
    /\ tasks[3].ns = DefaultNs

(***************************************************************************)
(* Claims about the order of the input of calculateExOverlaps (SpecOverlap)*)
(***************************************************************************)
\* the orders in which n things can be arranged, for every n up to the
\* most blocks a document holds
OrdersUpTo ==
    [n \in 0..MaxBlocks |->
        { f \in [1..n -> 1..n] : \A i, j \in 1..n : f[i] = f[j] => i = j }]

Orders(n) == OrdersUpTo[n]

\* the streams of ts arranged in the order f
ReorderStreams(ts, f) == [i \in DOMAIN ts |-> ts[f[i]]]

\* the one-shot blocks of stream k of ts arranged in the order f
ReorderBlocks(ts, k, f) ==
    [i \in DOMAIN ts |->
        IF i = k THEN [ts[i] EXCEPT !.ex = [j \in DOMAIN @ |-> @[f[j]]]] ELSE ts[i]]

\* C29: the result of calculateExOverlaps is the same list of ranges when the
\* streams are reordered or the one-shot intervals inside a stream are
\* reordered, and the call leaves the document it is given as it was.
C29_OrderIndependent ==
    /\ [](ovPc = "done" =>
            /\ \A f \in Orders(Len(tasks)) :
                 calculateExOverlaps(ReorderStreams(tasks, f), totalDuration) = overlaps
            /\ \A k \in DOMAIN tasks : \A f \in Orders(Len(tasks[k].ex)) :
                 calculateExOverlaps(ReorderBlocks(tasks, k, f), totalDuration) = overlaps)
    /\ [][ovPc' = "done" => (tasks' = tasks /\ totalDuration' = totalDuration)]_vars

\* two ranges were computed for a document whose first stream holds three
\* blocks that are not all alike and whose streams differ
C29_Witness ==
    /\ ovPc = "done"
    /\ Len(overlaps) = 2
    /\ Len(tasks[1].ex) = 3
    /\ tasks[1].ex[1] # tasks[1].ex[3]
    /\ tasks[1].checkOverlap

(***************************************************************************)
(* Claims about repeated toggles of the unique modifier (SpecUnique)       *)
(***************************************************************************)
\* the absolute value of an integer
Abs(n) == IF n < 0 THEN -n ELSE n

\* the duration before the first toggle is a whole number of hundredths of
\* a second and the flag was off
HundredthsAndOff ==
    /\ udOrigin.duration % UnitsPerHundredth = 0
    /\ ~udOrigin.isUnique2

\* one toggle: the flag is flipped, and the new duration is the hundredth
\* nearest to the old one times 1.19 when the flag is now on, to the old one
\* divided by 1.19 when it is now off
ToggleScales ==
    /\ udUnique2' = ~udUnique2
    /\ udDuration' % UnitsPerHundredth = 0
    /\ udUnique2' =>
         2 * Abs(100 * udDuration' - UNIQUE_FACTOR * udDuration)
             <= 100 * UnitsPerHundredth
    /\ ~udUnique2' =>
         2 * Abs(UNIQUE_FACTOR * udDuration' - 100 * udDuration)
             <= UNIQUE_FACTOR * UnitsPerHundredth

\* C28: for a duration that is a multiple of 0.01 s with the flag off, after
\* every enable/disable pair of toggles the stored duration and the flag are
\* what they were before the first toggle, and every toggle flips the flag
\* and scales the duration in the direction of the new flag value.
C28_NoDrift ==
    /\ []((HundredthsAndOff /\ udToggles % 2 = 0) =>
            (udDuration = udOrigin.duration /\ udUnique2 = udOrigin.isUnique2))
    /\ []((HundredthsAndOff /\ udToggles % 2 = 1) =>
            (udDuration >= udOrigin.duration /\ udUnique2))
    /\ [][ToggleScales]_vars

\* two enable/disable pairs on 0.5 s, whose product with 1.19 lies half way
\* between two hundredths
C28_Witness ==
    /\ udToggles = 4
    /\ HundredthsAndOff
    /\ udOrigin.duration = 500 * SubTicks
    /\ udDuration = 500 * SubTicks
    /\ ~udUnique2

(***************************************************************************)
(* Specification of loading and saving: the application is constructed     *)
(* over some stored text; the effects of the mount run in the order they   *)
(* are declared (the load effect, then the save effect of the first        *)
(* render), the queued updates are rendered and the save effect runs       *)
(* again.  The handlers follow, and the page may be loaded again over      *)
(* what was saved.                                                         *)
(***************************************************************************)
\* the titles typed into the title input
ChartTitles == { "", "Chart2" }

\* objects a stored text is the JSON of: none of the three fields; a title
\* and a total duration over an empty stream list; a whole document with a
\* title of its own, with the empty title, and without title and duration
StoredObjects ==
    { [other |-> 0],
      DataToSave(240000, "Saved", << >>),
      DataToSave(240000, "Saved", StoredDocument(50000)),
      DataToSave(240000, "", StoredDocument(50000)),
      [tasks |-> StoredDocument(50000)] }

\* what localStorage may hold when the page is opened
StoredTexts ==
    { << >>, << [text |-> "empty"] >>, << [text |-> "garbage"] >>,
      << [text |-> "null"] >> }
    \cup { << JSONStringify(o) >> : o \in StoredObjects }

\* the state of the first render: the initial values of useState
InitPersist ==
    /\ tasks = << >>
    /\ totalDuration = DefaultTotalDuration
    /\ overlaps = << >>
    /\ ovPc = "done"
    /\ dragState = << >>
    /\ pendingFrame = << >>
    /\ zoomIndex = 0
    /\ viewportWidth \in ViewportWidths
    /\ steps = 0
    /\ chartTitle = DefaultChartTitle
    /\ isLoaded = FALSE
    /\ storage \in StoredTexts
    /\ queued = << >>
    /\ loadPc = "mounted"
    /\ outputText = << >>
    /\ showOutputModal = FALSE
    /\ NsIdle
    /\ TtIdle
    /\ UdIdle
    /\ GridIdle

\* the load effect of the mount: the stored text is read and the setters
\* are called; nothing is rendered yet
LoadEffect ==
    /\ loadPc = "mounted"
    /\ queued' = << LoadEffectUpdates(storage) >>
    /\ loadPc' = "loadEffect"
    /\ UNCHANGED <<chartTitle, isLoaded, storage, outputText, showOutputModal>>
    /\ UNCHANGED ovVars
    /\ UNCHANGED appVars
    /\ UNCHANGED nsVars
    /\ UNCHANGED ttVars
    /\ UNCHANGED udVars
    /\ UNCHANGED gridVars

\* the save effect of the mount, over the values of the first render
SaveEffectOnMount ==
    /\ loadPc = "loadEffect"
    /\ storage' = SaveEffect(isLoaded, DataToSave(totalDuration, chartTitle, tasks),
                              storage)
    /\ loadPc' = "saveEffect"
    /\ UNCHANGED <<chartTitle, isLoaded, queued, outputText, showOutputModal>>
    /\ UNCHANGED ovVars
    /\ UNCHANGED appVars
    /\ UNCHANGED nsVars
    /\ UNCHANGED ttVars
    /\ UNCHANGED udVars
    /\ UNCHANGED gridVars

\* the render of the queued updates and its save effect
CommitLoad ==
    /\ loadPc = "saveEffect"
    /\ tasks' = Applied(queued[1], "tasks", tasks)
    /\ totalDuration' = Applied(queued[1], "totalDuration", totalDuration)
    /\ chartTitle' = Applied(queued[1], "chartTitle", chartTitle)
    /\ isLoaded' = Applied(queued[1], "isLoaded", isLoaded)
    /\ overlaps' = calculateExOverlaps(tasks', totalDuration')
    /\ storage' = SaveEffect(isLoaded', DataToSave(totalDuration', chartTitle', tasks'),
                              storage)
    /\ queued' = << >>
    /\ loadPc' = "ready"
    /\ UNCHANGED <<ovPc, outputText, showOutputModal>>
    /\ UNCHANGED appVars
    /\ UNCHANGED nsVars
    /\ UNCHANGED ttVars
    /\ UNCHANGED udVars
    /\ UNCHANGED gridVars

\* onChange={(e) => setChartTitle(e.target.value)}
SetChartTitle ==
    /\ loadPc = "ready"
    /\ dragState = << >>
    /\ steps < MaxSteps
    /\ chartTitle' \in ChartTitles
    /\ storage' = SaveEffect(isLoaded, DataToSave(totalDuration, chartTitle', tasks),
                              storage)
    /\ steps' = steps + 1
    /\ UNCHANGED <<isLoaded, queued, loadPc, outputText, showOutputModal>>
    /\ UNCHANGED ovVars
    /\ UNCHANGED <<dragState, pendingFrame, zoomIndex, viewportWidth>>
    /\ UNCHANGED nsVars
    /\ UNCHANGED ttVars
    /\ UNCHANGED udVars
    /\ UNCHANGED gridVars

\* the page is loaded again: every state is back at its initial value, the
\* stored text stays
Reload ==
    /\ loadPc = "ready"
    /\ dragState = << >>
    /\ steps < MaxSteps
    /\ tasks' = << >>
    /\ totalDuration' = DefaultTotalDuration
    /\ overlaps' = << >>
    /\ chartTitle' = DefaultChartTitle
    /\ isLoaded' = FALSE
    /\ zoomIndex' = 0
    /\ loadPc' = "mounted"
    /\ steps' = steps + 1
    /\ outputText' = << >>
    /\ showOutputModal' = FALSE
    /\ UNCHANGED <<ovPc, dragState, pendingFrame, viewportWidth>>
    /\ UNCHANGED <<storage, queued>>
    /\ UNCHANGED nsVars
    /\ UNCHANGED ttVars
    /\ UNCHANGED udVars
    /\ UNCHANGED gridVars

NextPersist ==
    \/ LoadEffect
    \/ SaveEffectOnMount
    \/ CommitLoad
    \/ SetChartTitle
    \/ Reload
    \/ NextApp

SpecPersist == InitPersist /\ [][NextPersist]_vars

(***************************************************************************)
(* Claims about loading and saving (SpecPersist)                           *)
(***************************************************************************)
\* the step that renders what the load effect queued
LoadCompletes == loadPc = "saveEffect" /\ loadPc' = "ready"

\* the stored text is the JSON of an object that holds at least one stream
StoresStreams(store) ==
    /\ HasSavedData(store)
    /\ ~LoadThrows(store)
    /\ "tasks" \in DOMAIN store[1].value
    /\ Len(store[1].value.tasks) > 0

\* the fields of the document that the stored object holds
StoredFields(store) ==
    DOMAIN store[1].value \cap {"totalDuration", "chartTitle", "tasks"}

\* C23 as stated: the load always completes with isLoaded true; when the
\* stored value is absent, cannot be parsed or holds no streams the stream
\* list becomes the default stream set; when it parses with a non-empty
\* stream list the document equals the stored one.
C23_AsStated ==
    [][LoadCompletes =>
         /\ isLoaded'
         /\ ~StoresStreams(storage) => tasks' = initialTasks
         /\ StoresStreams(storage) =>
              \A f \in StoredFields(storage) :
                  DataToSave(totalDuration', chartTitle', tasks')[f]
                      = storage[1].value[f]]_vars

\* the part of C23 that holds: the same with the title left out of the
\* comparison when the stored title is the empty string
C23_ExceptEmptyTitle ==
    [][LoadCompletes =>
         /\ isLoaded'
         /\ ~StoresStreams(storage) => tasks' = initialTasks
         /\ StoresStreams(storage) =>
              \A f \in StoredFields(storage) :
                  \/ DataToSave(totalDuration', chartTitle', tasks')[f]
                         = storage[1].value[f]
                  \/ f = "chartTitle" /\ storage[1].value[f] = ""
                     /\ chartTitle' = DefaultChartTitle]_vars

\* C30: the stored text is written only by the save effect of a render in
\* which isLoaded is true, so never over the initial state of the first
\* render; and once isLoaded is true the stored text is, after every
\* handler, the JSON of the current totalDuration, chartTitle and tasks.
C30_SavedAfterLoadOnly ==
    /\ [][storage' # storage => isLoaded']_vars
    /\ [](~isLoaded => (tasks = << >> /\ loadPc # "ready"))
    /\ [](isLoaded =>
            storage = << JSONStringify(DataToSave(totalDuration, chartTitle, tasks)) >>)

\* a document stored by an earlier session was loaded, its title was then
\* changed, and the stored text holds the document with the new title
C30_Witness ==
    /\ isLoaded
    /\ steps = 1
    /\ totalDuration = 240000
    /\ chartTitle = "Chart2"
    /\ tasks = StoredDocument(50000)
    /\ storage = << JSONStringify(DataToSave(240000, "Chart2", StoredDocument(50000))) >>

(***************************************************************************)
(* Claims about the import (SpecApp)                                       *)
(***************************************************************************)
\* the step is a confirmed import of the file
ImportConfirmed(file) ==
    /\ Len(NonEmptyLines(file)) > 0
    /\ steps' = steps + 1
    /\ tasks' = importedTasks(tasks, NonEmptyLines(file))

\* the streams after the step are one per non-empty line of the file, in
\* the order of the lines, and none of them is a stream of the document
\* before the step
StreamsFromFile(file) ==
    LET lines == NonEmptyLines(file)
    IN  /\ Len(tasks') = Len(lines)
        /\ \A k \in DOMAIN lines :
             /\ tasks'[k].name = ImportedName(lines[k], k)
             /\ tasks'[k].ex = << >>
             /\ tasks'[k].ns.start = ImportedNumber(lines[k], "nsStart", MIN_ELAPSED_TIME)
             /\ tasks'[k].ns.gap = ImportedNumber(lines[k], "nsGap", 30000)
        /\ AllIds(tasks') \cap AllIds(tasks) = {}

\* C22 as stated: a confirmed import replaces the entire document: the
\* stream list is one stream per non-empty line, in input order, and nothing
\* of the previous document is retained, so the total duration and the title
\* are not those the previous document was given.
C22_AsStated ==
    [][\A file \in ImportFiles :
         ImportConfirmed(file) =>
            /\ StreamsFromFile(file)
            /\ totalDuration' = DefaultTotalDuration
            /\ chartTitle' = DefaultChartTitle]_vars

\* the part of C22 that holds: a confirmed import replaces the stream list
\* and keeps the total duration and the title
C22_StreamListReplaced ==
    [][\A file \in ImportFiles :
         ImportConfirmed(file) =>
            /\ StreamsFromFile(file)
            /\ totalDuration' = totalDuration
            /\ chartTitle' = chartTitle]_vars

(***************************************************************************)
(* The plain-text export.  A text is the sequence of its lines.            *)
(***************************************************************************)
\* n.toString().padStart(width, '0') for 0 <= n
PadStart(n, width) ==
    LET digits == ToString(n)
    IN  IF width = 2 /\ n < 10 THEN "0" \o digits
        ELSE IF width = 3 /\ n < 10 THEN "00" \o digits
        ELSE IF width = 3 /\ n < 100 THEN "0" \o digits
        ELSE digits

\* formatTimeFixed(seconds): the sign, the minutes, the seconds on two
\* digits and (s - sInt).toFixed(3) without its leading 0
formatTimeFixed(seconds) ==
    LET sign == IF seconds < 0 THEN "-" ELSE ""
        absSeconds == IF seconds < 0 THEN -seconds ELSE seconds
        m == absSeconds \div 60000
        sec == absSeconds % 60000
        sInt == sec \div 1000
        sDec == "." \o PadStart(sec - sInt * 1000, 3)
        sStr == PadStart(sInt, 2) \o sDec
    IN  sign \o ToString(m) \o ":" \o sStr

\* task.ex.forEach(block => allEvents.push({ time, name, ... }))
ExportEventsOf(task, totalDur) ==
    [j \in DOMAIN task.ex |->
        [time |-> toRemaining(task.ex[j].start, totalDur), name |-> task.name]]

RECURSIVE ExportEvents_CheckedOnly(_, _)
\* mutant: only the streams with the overlap flag are exported
ExportEvents_CheckedOnly(ts, totalDur) ==
    IF ts = << >> THEN << >>
    ELSE ExportEvents_CheckedOnly(SubSeq(ts, 1, Len(ts) - 1), totalDur)
         \o (IF ts[Len(ts)].checkOverlap
             THEN ExportEventsOf(ts[Len(ts)], totalDur) ELSE << >>)

RECURSIVE ExportEvents(_, _)
\* tasks.forEach(task => ...): the events of every stream, in document order
ExportEvents(ts, totalDur) ==
    IF ts = << >> THEN << >>
    ELSE ExportEvents(SubSeq(ts, 1, Len(ts) - 1), totalDur)
         \o ExportEventsOf(ts[Len(ts)], totalDur)

RECURSIVE InsertByTimeDescending(_, _)
\* one event put into a sorted list under the comparator b.time - a.time,
\* behind the events it compares equal to
InsertByTimeDescending(e, sorted) ==
    IF sorted = << >> THEN << e >>
    ELSE IF Head(sorted).time - e.time < 0
         THEN << e >> \o sorted
         ELSE << Head(sorted) >> \o InsertByTimeDescending(e, Tail(sorted))

RECURSIVE SortByTimeDescending(_)
\* allEvents.sort((a, b) => b.time - a.time)
SortByTimeDescending(events) ==
    IF events = << >> THEN << >>
    ELSE InsertByTimeDescending(events[Len(events)],
                                SortByTimeDescending(SubSeq(events, 1, Len(events) - 1)))

\* `${formatTimeFixed(evt.time)} ${evt.name}`
EventLine(evt) == formatTimeFixed(evt.time) \o " " \o evt.name

\* the lines of generateOutput: the title, an empty line, the event lines
generateOutput(ts, totalDur, title) ==
    LET allEvents == SortByTimeDescending(ExportEvents(ts, totalDur))
    IN  << title, "" >> \o [i \in DOMAIN allEvents |-> EventLine(allEvents[i])]

(***************************************************************************)
(* Specification of the export: a document of two streams is drawn and     *)
(* the export button is pressed                                            *)
(***************************************************************************)
\* the stored starts of exported blocks: the floor, a start with
\* thousandths, a start on a whole minute of remaining time, and one past
\* the longest total duration
ExportStarts == { MIN_ELAPSED_TIME, 30500, 150000, 275001 }

ExportBlocks == { [start |-> st, castTime |-> 0, duration |-> 10000] : st \in ExportStarts }

ExportLists(n) == [1..n -> ExportBlocks]

ExportDocument(f1, e1, f2, e2) ==
    << [id |-> 1, name |-> "Striker1", checkOverlap |-> f1, ex |-> e1, ns |-> DefaultNs],
       [id |-> 2, name |-> "Special1", checkOverlap |-> f2, ex |-> e2, ns |-> DefaultNs] >>

InitExport ==
    /\ \E n1 \in 0..MaxBlocks : \E n2 \in 0..(MaxBlocks - n1) :
         \E e1 \in ExportLists(n1), e2 \in ExportLists(n2), f1 \in BOOLEAN, f2 \in BOOLEAN :
            tasks = ExportDocument(f1, e1, f2, e2)
    /\ \E o \in {1, 3} : totalDuration = TIME_OPTIONS[o]
    /\ overlaps = calculateExOverlaps(tasks, totalDuration)
    /\ ovPc = "done"
    /\ AppIdle
    /\ chartTitle \in ChartTitles
    /\ isLoaded = TRUE
    /\ storage = << JSONStringify(DataToSave(totalDuration, chartTitle, tasks)) >>
    /\ queued = << >>
    /\ loadPc = "ready"
    /\ outputText = << >>
    /\ showOutputModal = FALSE
    /\ NsIdle
    /\ TtIdle
    /\ UdIdle
    /\ GridIdle

\* generateOutput: setOutputText(lines.join('\n')), setShowOutputModal(true)
GenerateOutput ==
    /\ loadPc = "ready"
    /\ outputText' = generateOutput(tasks, totalDuration, chartTitle)
    /\ showOutputModal' = TRUE
    /\ UNCHANGED <<chartTitle, isLoaded, storage, queued, loadPc>>
    /\ UNCHANGED ovVars
    /\ UNCHANGED appVars
    /\ UNCHANGED nsVars
    /\ UNCHANGED ttVars
    /\ UNCHANGED udVars
    /\ UNCHANGED gridVars

NextExport == GenerateOutput

SpecExport == InitExport /\ [][NextExport]_vars

(***************************************************************************)
(* Claims about the export (SpecExport)                                    *)
(***************************************************************************)
\* the positions of the one-shot blocks of the document: stream and block
BlockPositions ==
    { p \in (DOMAIN tasks) \X (1..(MaxBlocks + 1)) : p[2] \in DOMAIN tasks[p[1]].ex }

\* the remaining time of the block at a position, and the line it is due
RemainingAt(p) == totalDuration - tasks[p[1]].ex[p[2]].start
LineDue(p) == formatTimeFixed(RemainingAt(p)) \o " " \o tasks[p[1]].name

\* the event lines of the exported text, after the title and the empty line
EventLines == SubSeq(outputText, 3, Len(outputText))

\* the ways of giving every event line a block of its own
LineAssignments ==
    { a \in [DOMAIN EventLines -> BlockPositions] :
        \A x, y \in DOMAIN EventLines : a[x] = a[y] => x = y }

\* C21: the exported text holds exactly one event line per one-shot block
\* of every stream, whatever the stream's overlap flag, and none for the
\* repeating occurrences; the event lines are in non-increasing order of
\* remaining time totalDuration - start.
C21_ExportLines ==
    showOutputModal =>
        /\ Len(EventLines) = Cardinality(BlockPositions)
        /\ \E a \in LineAssignments :
             /\ \A x \in DOMAIN EventLines : EventLines[x] = LineDue(a[x])
             /\ \A x \in DOMAIN EventLines :
                  x + 1 \in DOMAIN EventLines =>
                      RemainingAt(a[x]) >= RemainingAt(a[x + 1])

\* an export of three blocks of two streams, the first stream without the
\* overlap flag, one of the remaining times negative
C21_Witness ==
    /\ showOutputModal
    /\ ~tasks[1].checkOverlap
    /\ totalDuration = 210000
    /\ outputText = << "Chart2", "", "2:59.500 Striker1", "1:00.000 Special1",
                       "-1:05.001 Striker1" >>

(***************************************************************************)
(* Claims about the scheduling of pointer moves (SpecDrag)                 *)
(***************************************************************************)
\* the step runs a scheduled callback
CallbackRuns == Len(pendingFrame') < Len(pendingFrame)

\* the step is a pointer move that schedules a callback
MoveSchedules ==
    /\ Len(pendingFrame') >= Len(pendingFrame)
    /\ pendingFrame' # pendingFrame

\* the pointer position of the move received last
LatestClientX == pendingFrame[Len(pendingFrame)].clientX

\* C24: at any time at most one recomputation is pending; a pointer move
\* cancels the pending one and leaves its own in its place; a callback that
\* runs computes the candidate start from the pointer position received
\* last and leaves nothing pending, so there is at most one candidate
\* update per refresh.
C24_SingleSlot ==
    /\ [](Len(pendingFrame) <= 1)
    /\ [][MoveSchedules =>
            /\ Len(pendingFrame') = 1
            /\ dragState' = dragState]_vars
    /\ [][CallbackRuns =>
            /\ pendingFrame' = << >>
            /\ dragState'[1].currentStart =
                   DragCandidate(dragState[1], LatestClientX,
                                 ActualWidth(viewportWidth, zoomIndex), totalDuration)]_vars

\* a callback has moved the candidate and the move that came after it is
\* pending, with the pointer 1000 pixels right of where it was pressed
C24_Witness ==
    /\ Len(pendingFrame) = 1
    /\ pendingFrame[1].clientX = dragState[1].startX + 1000
    /\ pendingFrame[1].dragState.currentStart # dragState[1].originalStart
    /\ dragState[1].currentStart # dragState[1].originalStart

(***************************************************************************)
(* Claims about the drag in the application (SpecApp)                      *)
(***************************************************************************)
\* the fields of the drag context that onMouseDown sets and nothing moves
DragOrigin == {"taskId", "type", "subId", "startX", "originalStart"}

\* C25: between the begin and the end of a drag only the candidate start of
\* the drag context changes: the stream list with every stored start,
\* totalDuration and the overlap ranges stay what they were before the
\* drag, and the origin position and original start stay what onMouseDown
\* set them to.
C25_OnlyCandidateMoves ==
    /\ [][(dragState # << >> /\ dragState' # << >>) =>
            /\ tasks' = tasks
            /\ totalDuration' = totalDuration
            /\ overlaps' = overlaps
            /\ \A f \in DragOrigin : dragState'[1][f] = dragState[1][f]]_vars
    /\ [](dragState # << >> =>
            /\ DOMAIN dragState[1] = DragOrigin \cup {"currentStart"}
            /\ dragState[1].originalStart =
                   StartValue(tasks, dragState[1].taskId, dragState[1].type,
                              dragState[1].subId)
            /\ overlaps = calculateExOverlaps(tasks, totalDuration))

\* a drag of the second default stream's interval whose candidate has moved
\* while the interval is still stored at 30 s
C25_Witness ==
    /\ dragState # << >>
    /\ dragState[1].type = "ex"
    /\ dragState[1].taskId = 2
    /\ dragState[1].originalStart = 30000
    /\ dragState[1].currentStart = 51000
    /\ tasks = initialTasks

\* the step ends a drag whose candidate start is the original start
ReleaseUnmoved ==
    /\ dragState # << >>
    /\ dragState' = << >>
    /\ dragState[1].currentStart = dragState[1].originalStart

\* C26 as stated: a drag that begins and ends with no pointer movement in
\* between leaves the document unchanged, for a one-shot interval and for
\* occurrence 0 of a repeating stream, whatever the stored values are.
C26_AsStated ==
    [][ReleaseUnmoved => tasks' = tasks]_vars

\* the part of C26 that holds: the document is unchanged unless the drag was
\* on a repeating stream whose stored start is below MIN_ELAPSED_TIME, and
\* then that start alone is raised to MIN_ELAPSED_TIME
C26_ExceptStartBelowFloor ==
    [][ReleaseUnmoved =>
         \/ tasks' = tasks
         \/ /\ dragState[1].type = "ns"
            /\ dragState[1].originalStart < MIN_ELAPSED_TIME
            /\ tasks' = updateNsConfig(tasks, totalDuration, dragState[1].taskId,
                                       "start", Number(MIN_ELAPSED_TIME))]_vars

\* C27: once a drag has ended no callback is pending; the drag context stays
\* cleared until the pointer is pressed on a bar again, and while it is
\* cleared the document changes only by a handler, never by a pointer move
\* or a display refresh.
C27_NothingAfterRelease ==
    /\ [](dragState = << >> => pendingFrame = << >>)
    /\ [][(dragState # << >> /\ dragState' = << >>) => pendingFrame' = << >>]_vars
    /\ [][(dragState = << >> /\ dragState' # << >>) =>
            /\ steps' = steps + 1
            /\ DOMAIN dragState'[1] = DragOrigin \cup {"currentStart"}
            /\ dragState'[1].currentStart = dragState'[1].originalStart
            /\ tasks' = tasks]_vars
    /\ [][(dragState = << >> /\ dragState' = << >> /\ tasks' # tasks) =>
            steps' = steps + 1]_vars

\* a drag was released while a callback was pending, and the pointer has
\* been pressed again on the interval, now stored at 2 s
C27_Witness ==
    /\ steps = 2
    /\ dragState # << >>
    /\ pendingFrame = << >>
    /\ dragState[1].type = "ex"
    /\ dragState[1].taskId = 2
    /\ dragState[1].originalStart = MIN_ELAPSED_TIME
    /\ dragState[1].currentStart = MIN_ELAPSED_TIME
====
